---- MODULE Spec2Model ----
(***************************************************************************)
(* The synthetic energy series generator of src/src/seed.ts: the quota     *)
(* tracker (anomalyCounts, anomalies), the trigger policy                  *)
(* (shouldForceAnomaly, selectAnomalyType), the baseline and the five      *)
(* anomaly generators (generateEnergyProduction) and the run driver        *)
(* (seedDatabase) with its database operations, each of which may reject;  *)
(* and the API server of src/src/index.ts: its connection, its routers,    *)
(* middlewares and handlers, with the requests of two clients in flight.   *)
(* To the seeding program the database is the set of stored units (serial  *)
(* numbers) and the sequence of stored readings; to the server it is the   *)
(* set of stored units and the set of stored readings, each with its id.   *)
(*                                                                         *)
(* Numbers.  Energies and capacities are integers (watt-hours, watts).     *)
(* A value of Math.random() is k / RandDen with k in 0 .. RandDen-1.  A    *)
(* product is rounded as Math.round rounds the double the program          *)
(* computes: where the exact product is a half, or so near one that the    *)
(* rounding of the factors decides, the doubles are computed bit by bit    *)
(* (round to nearest, ties to even); everywhere else exact arithmetic      *)
(* gives the same integer.  The percentages quoted in the descriptions of  *)
(* the log are left out; the energies and hours quoted are kept.           *)
(*                                                                         *)
(* Time is counted in minutes since startDate (the local midnight that     *)
(* begins June 1st 2025), on the clocks of the time zone of the process,   *)
(* with the changes of offset of the zone.                                 *)
(***************************************************************************)
EXTENDS Integers, Sequences, FiniteSets, TLC

(* ------------------------------ constants ------------------------------ *)

MIN_ANOMALIES_PER_TYPE == 5

MAX_ANOMALIES_PER_TYPE == 20

\* The keys of anomalyCounts, in the order Object.entries lists them.
AnomalyTypes ==
    << "NIGHT_GENERATION", "SUDDEN_DROP", "OVERPRODUCTION",
       "PEAK_HOUR_ZERO", "IRREGULAR_SPIKE" >>

TypeSet == { AnomalyTypes[i] : i \in 1..Len(AnomalyTypes) }

\* anomalyCounts as the module initialises it, and as seedDatabase resets it.
ZeroCounts ==
    [NIGHT_GENERATION |-> 0, SUDDEN_DROP |-> 0, OVERPRODUCTION |-> 0,
     PEAK_HOUR_ZERO |-> 0, IRREGULAR_SPIKE |-> 0]

\* The capacity of the solar unit seedDatabase creates.
SeedCapacity == 5000

\* Math.random() returns k / RandDen.
RandDen == 100

\* Math.sin(x) is SinTable / SinDen.
SinDen == 1000000000

(* ------------------------------ arithmetic ----------------------------- *)

\* F applied to v: binds a value that is used more than once.
With(v, F(_)) == F(v)

\* [q, r] with a * b = q * SinDen + r and 0 <= r < SinDen, for a >= 0 and
\* 0 <= b <= SinDen, computed in digits of base 1000 so that no intermediate
\* value passes 2^31 (a * b itself may): SinDen is 1000^3.
MulQR(a, b) ==
    LET a0 == a % 1000
        a1 == a \div 1000
        b0 == b % 1000
        b1 == (b \div 1000) % 1000
        b2 == b \div 1000000
        c0 == a0 * b0
        c1 == a0 * b1 + a1 * b0 + (c0 \div 1000)
        c2 == a0 * b2 + a1 * b1 + (c1 \div 1000)
    IN  [q |-> a1 * b2 + (c2 \div 1000),
         r |-> (c0 % 1000) + 1000 * (c1 % 1000) + 1000000 * (c2 % 1000)]

\* Math.round(n / d) for n >= 0 and d > 0.
RoundDiv(n, d) == (2 * n + d) \div (2 * d)

\* Math.sin(((hour - 6) / 14) * Math.PI) in billionths, for hour in 6..20.
\* (At hour 20 the float is 1.22e-16, which no capacity below 10^15 rounds up.)
SinTable(hour) ==
    CASE hour \in {6, 20}  -> 0
      [] hour \in {7, 19}  -> 222520934
      [] hour \in {8, 18}  -> 433883739
      [] hour \in {9, 17}  -> 623489802
      [] hour \in {10, 16} -> 781831482
      [] hour \in {11, 15} -> 900968868
      [] hour \in {12, 14} -> 974927912
      [] hour = 13         -> 1000000000

(* ------------------------ floating-point numbers ----------------------- *)

\* A natural number of any size: its digits of base 2^15, the least
\* significant first, so that no intermediate value passes 2^31.
Limb == 2^15

RECURSIVE Big(_)
Big(n) == IF n = 0 THEN << >> ELSE << n % Limb >> \o Big(n \div Limb)

RECURSIVE ToInt(_)
ToInt(a) == IF a = << >> THEN 0 ELSE Head(a) + Limb * ToInt(Tail(a))

\* a without its leading zero digits.
RECURSIVE Trim(_)
Trim(a) ==
    IF a # << >> /\ a[Len(a)] = 0 THEN Trim(SubSeq(a, 1, Len(a) - 1)) ELSE a

\* a + b + c, c a carry.
RECURSIVE BigAdd(_, _, _)
BigAdd(a, b, c) ==
    IF a = << >> /\ b = << >>
    THEN Big(c)
    ELSE LET x == (IF a = << >> THEN 0 ELSE Head(a))
                    + (IF b = << >> THEN 0 ELSE Head(b)) + c
         IN  << x % Limb >>
                \o BigAdd(IF a = << >> THEN a ELSE Tail(a),
                          IF b = << >> THEN b ELSE Tail(b), x \div Limb)

\* a * s + c for a digit s and a carry c.
RECURSIVE BigScale(_, _, _)
BigScale(a, s, c) ==
    IF a = << >>
    THEN Big(c)
    ELSE LET x == Head(a) * s + c
         IN  << x % Limb >> \o BigScale(Tail(a), s, x \div Limb)

RECURSIVE BigMul(_, _)
BigMul(a, b) ==
    IF b = << >>
    THEN << >>
    ELSE BigAdd(BigScale(a, Head(b), 0), << 0 >> \o BigMul(a, Tail(b)), 0)

\* Quotient and remainder of a by a digit d.
RECURSIVE BigDiv(_, _)
BigDiv(a, d) ==
    IF a = << >>
    THEN [q |-> << >>, r |-> 0]
    ELSE LET hi == BigDiv(Tail(a), d)
             x  == hi.r * Limb + Head(a)
         IN  [q |-> << x \div d >> \o hi.q, r |-> x % d]

\* The number of binary digits of a.
BitLen(a) ==
    LET t == Trim(a)
    IN  IF t = << >> THEN 0
        ELSE 15 * (Len(t) - 1)
               + (CHOOSE n \in 1..15 : 2^(n-1) <= t[Len(t)] /\ t[Len(t)] < 2^n)

\* The binary digit of a of weight 2^i.
Bit(a, i) ==
    IF i < 0 \/ (i \div 15) + 1 > Len(a) THEN 0
    ELSE (a[(i \div 15) + 1] \div 2^(i % 15)) % 2

\* a * 2^n and floor(a / 2^n).
Shl(a, n) == [i \in 1..(n \div 15) |-> 0] \o BigScale(a, 2^(n % 15), 0)

Shr(a, n) ==
    LET t == SubSeq(a, (n \div 15) + 1, Len(a))
        b == n % 15
    IN  [i \in 1..Len(t) |->
            (t[i] \div 2^b)
              + (IF i < Len(t) THEN (t[i + 1] % 2^b) * 2^(15 - b) ELSE 0)]

\* A number of JavaScript (an IEEE 754 double), not negative: m * 2^e with m
\* of 53 binary digits, or zero.
Zero == [m |-> << >>, e |-> 0]

\* A mantissa that rounding up has carried to 54 binary digits is halved.
Carried(q, e) ==
    IF BitLen(q) > 53
    THEN [m |-> Trim(Shr(q, 1)), e |-> e + 1]
    ELSE [m |-> Trim(q), e |-> e]

\* The double nearest to P * 2^E, P of L binary digits.
Nearest(P, E, sticky, L) ==
    IF L = 0 THEN Zero
    ELSE IF L <= 53
    THEN [m |-> Trim(Shl(P, 53 - L)), e |-> E - (53 - L)]
    ELSE Carried(IF /\ Bit(P, L - 54) = 1
                    /\ \/ sticky
                       \/ Bit(P, L - 53) = 1
                       \/ \E i \in 0..(L - 55) : Bit(P, i) = 1
                 THEN BigAdd(Shr(P, L - 53), << 1 >>, 0)
                 ELSE Shr(P, L - 53),
                 E + (L - 53))

\* The double nearest to P * 2^E, ties to the even m; sticky says that the
\* number rounded is a little more than P * 2^E.
RoundBig(P, E, sticky) == Nearest(P, E, sticky, BitLen(P))

\* Math.sin(((hour - 6) / 14) * Math.PI) as the double it is, for hour in
\* 6..20.
SinDouble(hour) ==
    CASE hour = 6 -> Zero
      [] hour = 13 -> [m |-> << 0, 0, 0, 128 >>, e |-> 0 - 52]
      [] hour = 7 -> [m |-> << 17794, 17924, 28227, 227 >>, e |-> 0 - 55]
      [] hour = 8 -> [m |-> << 11201, 6883, 4865, 222 >>, e |-> 0 - 54]
      [] hour = 9 -> [m |-> << 28113, 17687, 20099, 159 >>, e |-> 0 - 53]
      [] hour = 10 -> [m |-> << 24139, 27147, 4877, 200 >>, e |-> 0 - 53]
      [] hour = 11 -> [m |-> << 23665, 21398, 21234, 230 >>, e |-> 0 - 53]
      [] hour = 12 -> [m |-> << 26985, 2737, 19056, 249 >>, e |-> 0 - 53]
      [] hour = 14 -> [m |-> << 26985, 2737, 19056, 249 >>, e |-> 0 - 53]
      [] hour = 15 -> [m |-> << 23665, 21398, 21234, 230 >>, e |-> 0 - 53]
      [] hour = 16 -> [m |-> << 24140, 27147, 4877, 200 >>, e |-> 0 - 53]
      [] hour = 17 -> [m |-> << 28114, 17687, 20099, 159 >>, e |-> 0 - 53]
      [] hour = 18 -> [m |-> << 11203, 6883, 4865, 222 >>, e |-> 0 - 54]
      [] hour = 19 -> [m |-> << 17798, 17924, 28227, 227 >>, e |-> 0 - 55]
      [] hour = 20 -> [m |-> << 23559, 26152, 6296, 141 >>, e |-> 0 - 105]

\* The double an expression of JavaScript evaluates to, every operation
\* rounding its exact result: << "/", n, d >> is the double n / d of two
\* integers, 0 <= n and 0 < d < 2^15 (a literal such as 0.1, an integer
\* n / 1, a value of Math.random()); << "sin", hour >> the sine above;
\* << "*", x, y >> and << "+", x, y >> the product and the sum.
RECURSIVE Number(_)
Number(x) ==
    LET exact ==
          CASE x[1] = "/" ->
                 LET qr == BigDiv(Shl(Big(x[2]), 75), x[3])
                 IN  [P |-> qr.q, E |-> 0 - 75, sticky |-> qr.r # 0]
            [] x[1] = "sin" ->
                 [P |-> SinDouble(x[2]).m, E |-> SinDouble(x[2]).e,
                  sticky |-> FALSE]
            [] x[1] = "*" ->
                 LET a == Number(x[2])
                     b == Number(x[3])
                 IN  [P |-> BigMul(a.m, b.m), E |-> a.e + b.e,
                      sticky |-> FALSE]
            [] x[1] = "+" ->
                 LET a == Number(x[2])
                     b == Number(x[3])
                     e == IF a.e < b.e THEN a.e ELSE b.e
                 IN  [P |-> BigAdd(Shl(a.m, a.e - e), Shl(b.m, b.e - e), 0),
                      E |-> e, sticky |-> FALSE]
    IN  RoundBig(exact.P, exact.E, exact.sticky)

\* Math.floor(x) and Math.round(x), for x below 2^31.
MathFloor(x) ==
    IF x.e >= 0 THEN ToInt(Shl(x.m, x.e)) ELSE ToInt(Shr(x.m, 0 - x.e))

MathRound(x) ==
    MathFloor(x) + (IF x.e >= 0 THEN 0 ELSE Bit(x.m, (0 - x.e) - 1))

\* n / d lies halfway between two integers.  Every product below is a
\* fraction of small integers: unless it is such a half it is further from
\* one than any rounding error of the doubles, and Math.round of the double
\* is the rounding of the fraction; when it is one, the doubles decide.
IsHalf(n, d) == (n % d) * 2 = d

(* --------------------------- the trigger policy ------------------------ *)

\* Mutation of TypesBelow: the comparison admits the bound itself.
TypesAtOrBelow(counts, bound) ==
    SelectSeq(AnomalyTypes, LAMBDA t : counts[t] <= bound)

\* Object.entries(anomalyCounts).filter(count < bound).map(type): the types
\* whose count is below bound, in key order.
TypesBelow(counts, bound) ==
    SelectSeq(AnomalyTypes, LAMBDA t : counts[t] < bound)

\* Mutation of ShouldForceAnomaly: the elevated rate starts at a progress of
\* 0.7, not above it.
ShouldForceAnomalyFromSeventy(counts, totalRecords, currentRecord, rs) ==
    LET typesNeedingMore == Len(TypesBelow(counts, MIN_ANOMALIES_PER_TYPE))
        late == 10 * currentRecord >= 7 * totalRecords
    IN  IF late /\ typesNeedingMore > 0
        THEN [value |-> 10 * Head(rs) < 3 * RandDen, rest |-> Tail(rs)]
        ELSE [value |-> 100 * Head(rs) < 8 * RandDen, rest |-> Tail(rs)]

\* shouldForceAnomaly.  rs is the stream of Math.random() values still to be
\* drawn; the result is the decision and the stream that is left.
ShouldForceAnomaly(counts, totalRecords, currentRecord, rs) ==
    LET typesNeedingMore == Len(TypesBelow(counts, MIN_ANOMALIES_PER_TYPE))
        \* progress = currentRecord / totalRecords > 0.7
        late == 10 * currentRecord > 7 * totalRecords
    IN  IF late /\ typesNeedingMore > 0
        THEN [value |-> 10 * Head(rs) < 3 * RandDen, rest |-> Tail(rs)]
        ELSE [value |-> 100 * Head(rs) < 8 * RandDen, rest |-> Tail(rs)]

\* Mutation of NeedingMore: no type is preferred.
NeedingMoreNone(counts, availableTypes) == << >>

\* typesNeedingMore of selectAnomalyType: the available types below the minimum.
NeedingMore(counts, availableTypes) ==
    SelectSeq(availableTypes, LAMBDA t : counts[t] < MIN_ANOMALIES_PER_TYPE)

\* Mutation of AvailableTypes: the maximum is not looked at.
AvailableTypesUnbounded(counts) == AnomalyTypes

\* availableTypes of selectAnomalyType: the types below the maximum.
AvailableTypes(counts) == TypesBelow(counts, MAX_ANOMALIES_PER_TYPE)

\* list[Math.floor(Math.random() * list.length)]
PickRandom(list, k) ==
    IF k > 0 /\ (k * Len(list)) % RandDen = 0
    THEN list[MathFloor(Number(<< "*", << "/", k, RandDen >>,
                                      << "/", Len(list), 1 >> >>)) + 1]
    ELSE list[((k * Len(list)) \div RandDen) + 1]

\* Mutation of SelectAnomalyType: with every type at the maximum the pick is
\* made among all types.
SelectAnomalyTypeAlways(counts, rs) ==
    LET availableTypes   == AvailableTypes(counts)
        typesNeedingMore == NeedingMore(counts, availableTypes)
    IN  IF Len(availableTypes) = 0
        THEN [value |-> PickRandom(AnomalyTypes, Head(rs)), rest |-> Tail(rs)]
        ELSE IF Len(typesNeedingMore) > 0
        THEN [value |-> PickRandom(typesNeedingMore, Head(rs)), rest |-> Tail(rs)]
        ELSE [value |-> PickRandom(availableTypes, Head(rs)), rest |-> Tail(rs)]

\* selectAnomalyType: "null" when every type is at the maximum (no draw).
SelectAnomalyType(counts, rs) ==
    LET availableTypes   == AvailableTypes(counts)
        typesNeedingMore == NeedingMore(counts, availableTypes)
    IN  IF Len(availableTypes) = 0
        THEN [value |-> "null", rest |-> rs]
        ELSE IF Len(typesNeedingMore) > 0
        THEN [value |-> PickRandom(typesNeedingMore, Head(rs)), rest |-> Tail(rs)]
        ELSE [value |-> PickRandom(availableTypes, Head(rs)), rest |-> Tail(rs)]

(* ------------------------------ the baseline --------------------------- *)

\* Mutation of NormalProduction: the night test joins its two halves with
\* "and", is never true, and the sine curve runs on below zero at night.
NormalProductionNoNight(hour, capacity, rs) ==
    LET mirror == IF hour < 6 THEN 12 - hour
                  ELSE IF hour > 20 THEN hour - 14 ELSE hour
        m == MulQR(capacity * (2 * RandDen + Head(rs)), SinTable(mirror))
        v == (8 * m.q + 5 * RandDen + (m.r \div (SinDen \div 8)))
                 \div (10 * RandDen)
    IN  [value |-> IF hour < 6 \/ hour > 20 THEN 0 - v ELSE v,
         rest  |-> Tail(rs)]

\* Mutation of NormalProduction: the random factor is 0.8 + random * 0.8.
NormalProductionWide(hour, capacity, rs) ==
    IF hour < 6 \/ hour > 20
    THEN [value |-> 0, rest |-> rs]
    ELSE LET m == MulQR(capacity * (2 * RandDen + 2 * Head(rs)),
                        SinTable(hour))
         IN  [value |-> (8 * m.q + 5 * RandDen + (m.r \div (SinDen \div 8)))
                            \div (10 * RandDen),
              rest  |-> Tail(rs)]

\* capacity * productionFactor * randomFactor * 2 in doubles, rounded.
NormalDouble(hour, capacity, k) ==
    MathRound(Number(
        << "*",
           << "*",
              << "*", << "/", capacity, 1 >>, << "sin", hour >> >>,
              << "+", << "/", 8, 10 >>,
                      << "*", << "/", k, RandDen >>, << "/", 4, 10 >> >> >> >>,
           << "/", 2, 1 >> >>))

\* normalProduction: Math.round(capacity * sin * (0.8 + random * 0.4) * 2).
\*   0.8 + (k / RandDen) * 0.4 = (4 RandDen + 2 k) / (5 RandDen), so with
\*   capacity * (2 RandDen + k) * sin = q + r / SinDen the product is
\*   x / (10 RandDen) with x = 8 q + 8 r / SinDen, and adding a half and
\*   taking the floor gives (floor(x) + 5 RandDen) \div (10 RandDen).  The
\*   table is off by up to half a billionth, x by up to
\*   capacity * (2 RandDen + k) * 4 / SinDen: where x is within that (and
\*   two more) of a half, the product is computed in doubles.
NormalProduction(hour, capacity, rs) ==
    IF hour < 6 \/ hour > 20
    THEN [value |-> 0, rest |-> rs]
    ELSE LET k == Head(rs)
             m == MulQR(capacity * (2 * RandDen + k), SinTable(hour))
             x == 8 * m.q + (m.r \div (SinDen \div 8))
             margin == 3 + (capacity * (2 * RandDen + k)) \div (SinDen \div 4)
             d == (x % (10 * RandDen)) - 5 * RandDen
         IN  [value |-> IF d <= margin /\ 0 - d <= margin + 1
                        THEN NormalDouble(hour, capacity, k)
                        ELSE (x + 5 * RandDen) \div (10 * RandDen),
              rest  |-> Tail(rs)]

(* ------------------------- generateEnergyProduction -------------------- *)

\* Mutation of Inject: the event is put at the head of the log.
InjectPrepended(counts, log, type, timestamp, description) ==
    [counts    |-> [counts EXCEPT ![type] = @ + 1],
     anomalies |-> << [type |-> type, timestamp |-> timestamp,
                       description |-> description] >> \o log]

\* Mutation of Inject: the event is pushed and the count left as it was.
InjectUncounted(counts, log, type, timestamp, description) ==
    [counts    |-> counts,
     anomalies |-> Append(log, [type |-> type, timestamp |-> timestamp,
                                description |-> description])]

\* anomalies.push({type, timestamp, description}) and anomalyCounts[type]++.
\* The description is kept as the numbers its text is built from.
Inject(counts, log, type, timestamp, description) ==
    [counts    |-> [counts EXCEPT ![type] = @ + 1],
     anomalies |-> Append(log, [type |-> type, timestamp |-> timestamp,
                                description |-> description])]

\* What a call leaves behind: the value returned, anomalyCounts and anomalies
\* after it, its locals shouldAnomaly and anomalyType, and the random stream
\* that is left.
Outcome(energy, counts, log, shouldAnomaly, anomalyType, rest) ==
    [energy |-> energy, counts |-> counts, anomalies |-> log,
     shouldAnomaly |-> shouldAnomaly, anomalyType |-> anomalyType,
     rest |-> rest]

\* return normalProduction(): nothing is recorded.
Fallback(hour, capacity, counts, log, shouldAnomaly, anomalyType, rs) ==
    With(NormalProduction(hour, capacity, rs),
         LAMBDA n : Outcome(n.value, counts, log, shouldAnomaly,
                            anomalyType, n.rest))

\* Math.round(capacity * 0.1 * Math.random())
NightEnergy(capacity, k) ==
    IF IsHalf(capacity * k, 10 * RandDen)
    THEN MathRound(Number(<< "*", << "*", << "/", capacity, 1 >>,
                                          << "/", 1, 10 >> >>,
                                  << "/", k, RandDen >> >>))
    ELSE RoundDiv(capacity * k, 10 * RandDen)

\* Mutation of NightGeneration: the hour is not tested.
NightGenerationUnguarded(hour, capacity, timestamp, counts, log, rs) ==
    With(NightEnergy(capacity, Head(rs)),
         LAMBDA nightEnergy :
           LET j == Inject(counts, log, "NIGHT_GENERATION", timestamp,
                           [wh |-> nightEnergy, hour |-> hour])
           IN  Outcome(nightEnergy, j.counts, j.anomalies, TRUE,
                       "NIGHT_GENERATION", Tail(rs)))

\* case "NIGHT_GENERATION"
NightGeneration(hour, capacity, timestamp, counts, log, rs) ==
    IF hour < 6 \/ hour > 20
    THEN With(NightEnergy(capacity, Head(rs)),
              LAMBDA nightEnergy :
                LET j == Inject(counts, log, "NIGHT_GENERATION", timestamp,
                                [wh |-> nightEnergy, hour |-> hour])
                IN  Outcome(nightEnergy, j.counts, j.anomalies, TRUE,
                            "NIGHT_GENERATION", Tail(rs)))
    ELSE Fallback(hour, capacity, counts, log, TRUE, "NIGHT_GENERATION", rs)

\* Math.round(previousEnergy * 0.1)
DroppedEnergy(previousEnergy) ==
    IF IsHalf(previousEnergy, 10)
    THEN MathRound(Number(<< "*", << "/", previousEnergy, 1 >>,
                                  << "/", 1, 10 >> >>))
    ELSE RoundDiv(previousEnergy, 10)

\* Mutation of SuddenDrop: the reading drops by 10%, to 90%.
SuddenDropByTenth(hour, capacity, timestamp, previousEnergy, counts, log, rs) ==
    IF previousEnergy > 0 /\ (hour >= 8 /\ hour <= 18)
    THEN LET droppedEnergy == RoundDiv(9 * previousEnergy, 10)
             j == Inject(counts, log, "SUDDEN_DROP", timestamp,
                         [from |-> previousEnergy, to |-> droppedEnergy])
         IN  Outcome(droppedEnergy, j.counts, j.anomalies, TRUE,
                     "SUDDEN_DROP", rs)
    ELSE Fallback(hour, capacity, counts, log, TRUE, "SUDDEN_DROP", rs)

\* case "SUDDEN_DROP"
SuddenDrop(hour, capacity, timestamp, previousEnergy, counts, log, rs) ==
    IF previousEnergy > 0 /\ (hour >= 8 /\ hour <= 18)
    THEN With(DroppedEnergy(previousEnergy),
              LAMBDA droppedEnergy :
                LET j == Inject(counts, log, "SUDDEN_DROP", timestamp,
                                [from |-> previousEnergy,
                                 to |-> droppedEnergy])
                IN  Outcome(droppedEnergy, j.counts, j.anomalies, TRUE,
                            "SUDDEN_DROP", rs))
    ELSE Fallback(hour, capacity, counts, log, TRUE, "SUDDEN_DROP", rs)

\* Math.round(capacity * 2.8 * Math.random() + capacity * 1.2)
OverEnergy(capacity, k) ==
    IF IsHalf(capacity * (28 * k + 12 * RandDen), 10 * RandDen)
    THEN MathRound(Number(
             << "+",
                << "*", << "*", << "/", capacity, 1 >>, << "/", 28, 10 >> >>,
                        << "/", k, RandDen >> >>,
                << "*", << "/", capacity, 1 >>, << "/", 12, 10 >> >> >>))
    ELSE RoundDiv(capacity * (28 * k + 12 * RandDen), 10 * RandDen)

\* Mutation of Overproduction: the offset is capacity * 0.2.
OverproductionLow(hour, capacity, timestamp, counts, log, rs) ==
    IF hour >= 10 /\ hour <= 14
    THEN LET overEnergy == RoundDiv(capacity * (28 * Head(rs) + 2 * RandDen),
                                    10 * RandDen)
             j == Inject(counts, log, "OVERPRODUCTION", timestamp,
                         [wh |-> overEnergy])
         IN  Outcome(overEnergy, j.counts, j.anomalies, TRUE,
                     "OVERPRODUCTION", Tail(rs))
    ELSE Fallback(hour, capacity, counts, log, TRUE, "OVERPRODUCTION", rs)

\* case "OVERPRODUCTION": capacity * 2.8 * random + capacity * 1.2
Overproduction(hour, capacity, timestamp, counts, log, rs) ==
    IF hour >= 10 /\ hour <= 14
    THEN With(OverEnergy(capacity, Head(rs)),
              LAMBDA overEnergy :
                LET j == Inject(counts, log, "OVERPRODUCTION", timestamp,
                                [wh |-> overEnergy])
                IN  Outcome(overEnergy, j.counts, j.anomalies, TRUE,
                            "OVERPRODUCTION", Tail(rs)))
    ELSE Fallback(hour, capacity, counts, log, TRUE, "OVERPRODUCTION", rs)

\* Mutation of PeakHourZero: the hour is not tested.
PeakHourZeroUnguarded(hour, capacity, timestamp, counts, log, rs) ==
    LET j == Inject(counts, log, "PEAK_HOUR_ZERO", timestamp,
                    [hour |-> hour])
    IN  Outcome(0, j.counts, j.anomalies, TRUE, "PEAK_HOUR_ZERO", rs)

\* case "PEAK_HOUR_ZERO"
PeakHourZero(hour, capacity, timestamp, counts, log, rs) ==
    IF hour >= 10 /\ hour <= 14
    THEN LET j == Inject(counts, log, "PEAK_HOUR_ZERO", timestamp,
                         [hour |-> hour])
         IN  Outcome(0, j.counts, j.anomalies, TRUE, "PEAK_HOUR_ZERO", rs)
    ELSE Fallback(hour, capacity, counts, log, TRUE, "PEAK_HOUR_ZERO", rs)

\* Math.round(normal * (3 + Math.random() * 2))
SpikeEnergy(normal, k) ==
    IF IsHalf(normal * (3 * RandDen + 2 * k), RandDen)
    THEN MathRound(Number(
             << "*", << "/", normal, 1 >>,
                     << "+", << "/", 3, 1 >>,
                             << "*", << "/", k, RandDen >>,
                                     << "/", 2, 1 >> >> >> >>))
    ELSE RoundDiv(normal * (3 * RandDen + 2 * k), RandDen)

\* case "IRREGULAR_SPIKE": normal * (3 + random * 2).  With normal = 0 the
\* percentage of the description is 0 / 0 and reads "NaN%": nan is TRUE.
IrregularSpike(hour, capacity, timestamp, counts, log, rs) ==
    IF hour >= 7 /\ hour <= 17
    THEN With(NormalProduction(hour, capacity, rs),
              LAMBDA n :
                With(SpikeEnergy(n.value, Head(n.rest)),
                     LAMBDA spikeEnergy :
                       LET normal == n.value
                           j == Inject(counts, log, "IRREGULAR_SPIKE",
                                       timestamp,
                                       [wh |-> spikeEnergy,
                                        nan |-> normal = 0])
                       IN  Outcome(spikeEnergy, j.counts, j.anomalies, TRUE,
                                   "IRREGULAR_SPIKE", Tail(n.rest))))
    ELSE Fallback(hour, capacity, counts, log, TRUE, "IRREGULAR_SPIKE", rs)

\* generateEnergyProduction(hour, capacity, timestamp, previousEnergy,
\* totalRecords, currentRecord), acting on anomalyCounts (counts) and
\* anomalies (log), with rs the values Math.random() returns, in order.
GenerateEnergyProduction(hour, capacity, timestamp, previousEnergy, totalRecords, currentRecord, counts, log, rs) ==
    LET force == ShouldForceAnomaly(counts, totalRecords, currentRecord, rs)
    IN  IF ~force.value
        THEN Fallback(hour, capacity, counts, log, FALSE, "null", force.rest)
        ELSE
        With(SelectAnomalyType(counts, force.rest),
             LAMBDA sel :
               LET anomalyType == sel.value
               IN  CASE anomalyType = "null" ->
                          Fallback(hour, capacity, counts, log, TRUE, "null",
                                   sel.rest)
                     [] anomalyType = "NIGHT_GENERATION" ->
                          NightGeneration(hour, capacity, timestamp, counts,
                                          log, sel.rest)
                     [] anomalyType = "SUDDEN_DROP" ->
                          SuddenDrop(hour, capacity, timestamp,
                                     previousEnergy, counts, log, sel.rest)
                     [] anomalyType = "OVERPRODUCTION" ->
                          Overproduction(hour, capacity, timestamp, counts,
                                         log, sel.rest)
                     [] anomalyType = "PEAK_HOUR_ZERO" ->
                          PeakHourZero(hour, capacity, timestamp, counts,
                                       log, sel.rest)
                     [] anomalyType = "IRREGULAR_SPIKE" ->
                          IrregularSpike(hour, capacity, timestamp, counts,
                                         log, sel.rest))

(* ------------------------------ random draws --------------------------- *)

\* The values of Math.random() the model draws, as numerators over RandDen:
\* below 0.08, between 0.08 and 0.3, and above; and one for each index
\* Math.floor(random * length) of a list of up to five types.
Rand == {0, 25, 50, 75, 99}

\* A call draws at most four values: the trigger, the type, the baseline's
\* random factor and the spike's.
Pad(s) == s \o << 0, 0, 0, 0 >>

\* A call of generateEnergyProduction with the arguments and the module
\* state of the record a, on the stream rs.
Call(a, rs) ==
    GenerateEnergyProduction(a.hour, a.capacity, a.timestamp,
        a.previousEnergy, a.totalRecords, a.currentRecord, a.counts, a.log, rs)

\* The streams of draws the call a consumes, each exactly as long as the
\* call reads: whether another value is drawn depends only on those drawn
\* before.
Extend(S, a) ==
    UNION { IF Len(Pad(s)) - Len(Call(a, Pad(s)).rest) > Len(s)
            THEN { Append(s, k) : k \in Rand }
            ELSE { s } : s \in S }

Streams(a) == Extend(Extend(Extend({ << k >> : k \in Rand }, a), a), a)

(* --------------- the API server: middlewares and routes ---------------- *)

\* A value that may be undefined: a header, an environment variable.  Its
\* text is a sequence of characters.
Undefined == [defined |-> FALSE, chars |-> << >>]

Str(cs) == [defined |-> TRUE, chars |-> cs]

\* JavaScript's !v for such a value: undefined and "" are falsy.
Falsy(v) == ~v.defined \/ v.chars = << >>

\* s.startsWith(prefix)
StartsWith(s, prefix) ==
    /\ Len(s) >= Len(prefix)
    /\ SubSeq(s, 1, Len(prefix)) = prefix

\* s.substring(start), start counted from 0
Substring(s, start) == SubSeq(s, start + 1, Len(s))

\* 'Bearer '
Bearer == << "B", "e", "a", "r", "e", "r", " " >>

\* Mutation of IsBackendAuthenticated: the secret need not be configured.
IsBackendAuthenticatedAnySecret(authHeader, expectedToken) ==
    IF Falsy(authHeader) \/ ~StartsWith(authHeader.chars, Bearer)
    THEN "UnauthorizedError"
    ELSE LET token == Str(Substring(authHeader.chars, 7))
         IN  IF token # expectedToken
             THEN "UnauthorizedError"
             ELSE "next"

\* isBackendAuthenticated: the error it throws, or "next" when it calls
\* next().
IsBackendAuthenticated(authHeader, expectedToken) ==
    IF Falsy(authHeader) \/ ~StartsWith(authHeader.chars, Bearer)
    THEN "UnauthorizedError"
    ELSE LET token == Str(Substring(authHeader.chars, 7))
         IN  IF Falsy(expectedToken) \/ token # expectedToken
             THEN "UnauthorizedError"
             ELSE "next"

\* req?.auth?.sessionClaims?.role: a role, or undefined when the request
\* has no session, no claims or no role claim.
NoRole == [defined |-> FALSE, value |-> ""]

Role(r) == [defined |-> TRUE, value |-> r]

\* isAdmin: the error it throws, or "next" when it calls next().  The
\* condition is !(role !== "admin").
IsAdmin(role) ==
    IF ~(role # Role("admin")) THEN "ForbiddenError" ELSE "next"

\* globalErrorHandlingMiddleware: the status of the response to an error.
GlobalErrorHandlingMiddleware(name) ==
    CASE name = "NotFoundError"     -> 404
      [] name = "ValidationError"   -> 400
      [] name = "UnauthorizedError" -> 401
      [] name = "ForbiddenError"    -> 403
      [] OTHER                      -> 500

\* A route: method, path pattern as its segments, the middlewares before
\* the handler, the handler.
Route(method, path, guards, handler) ==
    [method |-> method, path |-> path, guards |-> guards,
     handler |-> handler]

\* energy-generation-record.ts holds the energy-records router three
\* times.  The routes of the first, in registration order: seven, each
\* behind isBackendAuthenticated, the readings of a range of dates being
\* those of a unit.
FirstRouter ==
    LET guards == << "isBackendAuthenticated" >>
    IN  << Route("POST", << >>, guards, "createEnergyGenerationRecord"),
           Route("GET", << ":id" >>, guards, "getEnergyRecordById"),
           Route("PUT", << ":id" >>, guards, "updateEnergyGenerationRecord"),
           Route("DELETE", << ":id" >>, guards,
                 "deleteEnergyGenerationRecord"),
           Route("GET", << "solar-unit", ":solarUnitId" >>, guards,
                 "getEnergyRecordsBySolarUnit"),
           Route("GET", << "solar-unit", ":solarUnitId", "latest" >>, guards,
                 "getLatestEnergyRecord"),
           Route("GET", << "solar-unit", ":solarUnitId", "date-range" >>,
                 guards, "getEnergyRecordsByDateRange") >>

\* The routes of the second and of the third in registration order: nine,
\* each with the middlewares given.
Router(guards) ==
    << Route("POST", << >>, guards, "createEnergyGenerationRecord"),
       Route("GET", << ":id" >>, guards, "getEnergyRecordById"),
       Route("PUT", << ":id" >>, guards, "updateEnergyGenerationRecord"),
       Route("DELETE", << ":id" >>, guards, "deleteEnergyGenerationRecord"),
       Route("GET", << "solar-unit", ":solarUnitId" >>, guards,
             "getEnergyRecordsBySolarUnit"),
       Route("GET", << "solar-unit", ":solarUnitId", "latest" >>, guards,
             "getLatestEnergyRecord"),
       Route("GET", << "solar-unit", ":solarUnitId", "total" >>, guards,
             "getTotalEnergyProduced"),
       Route("GET", << "solar-unit", ":solarUnitId", "analytics" >>, guards,
             "getEnergyAnalytics"),
       Route("GET", << "date-range" >>, guards,
             "getEnergyRecordsByDateRange") >>

\* The routes of the solar-units router without middlewares, in
\* registration order.
SolarUnitsRouter ==
    << Route("GET", << >>, << >>, "getAllSolarUnits"),
       Route("GET", << ":id" >>, << >>, "getSolarUnitById"),
       Route("GET", << "user", ":userId" >>, << >>, "getSolarUnitsByUserId"),
       Route("GET", << "status", ":status" >>, << >>,
             "getSolarUnitsByStatus"),
       Route("POST", << >>, << >>, "createSolarUnit"),
       Route("PUT", << ":id" >>, << >>, "updateSolarUnit"),
       Route("PATCH", << ":id", "status" >>, << >>, "updateSolarUnitStatus"),
       Route("DELETE", << ":id" >>, << >>, "deleteSolarUnit") >>

\* The routes of the solar-units router behind isBackendAuthenticated, in
\* registration order.
GuardedSolarUnitsRouter ==
    LET guards == << "isBackendAuthenticated" >>
    IN  << Route("GET", << >>, guards, "getAllSolarUnits"),
           Route("GET", << ":id" >>, guards, "getSolarUnitById"),
           Route("GET", << "user", ":userId" >>, guards,
                 "getSolarUnitsByUserId"),
           Route("GET", << "status", ":status" >>, guards,
                 "getSolarUnitsByStatus"),
           Route("GET", << "unassigned", "list" >>, guards,
                 "getUnassignedSolarUnits"),
           Route("POST", << >>, guards, "createSolarUnit"),
           Route("PUT", << ":id" >>, guards, "updateSolarUnit"),
           Route("PATCH", << ":id", "status" >>, guards,
                 "updateSolarUnitStatus"),
           Route("PATCH", << ":id", "assign" >>, guards,
                 "assignUserToSolarUnit"),
           Route("PATCH", << ":id", "unassign" >>, guards,
                 "unassignUserFromSolarUnit"),
           Route("DELETE", << ":id" >>, guards, "deleteSolarUnit") >>

\* The energy-records routers, mounted at /api/energy-records: the first,
\* the second, whose routes are behind isBackendAuthenticated, and the
\* third, whose routes have no middleware; and the two of
\* /api/solar-units.
Routers == {"first", "guarded", "open", "units-guarded", "units-open"}

Routes(router) ==
    CASE router = "first" -> FirstRouter
      [] router = "guarded" -> Router(<< "isBackendAuthenticated" >>)
      [] router = "open" -> Router(<< >>)
      [] router = "units-guarded" -> GuardedSolarUnitsRouter
      [] router = "units-open" -> SolarUnitsRouter
      [] OTHER -> << >>

\* The named parameters of the path patterns: each matches one segment.
Params == {":id", ":solarUnitId", ":userId", ":status"}

\* The path pattern matches the path: as many segments, and each one
\* either a parameter or the same text.
MatchPath(pattern, path) ==
    /\ Len(pattern) = Len(path)
    /\ \A i \in 1..Len(pattern) :
          pattern[i] \in Params \/ pattern[i] = path[i]

\* The routes a request matches, as positions in the router.
Matching(router, method, path) ==
    { i \in 1..Len(Routes(router)) :
         /\ Routes(router)[i].method = method
         /\ MatchPath(Routes(router)[i].path, path) }

\* The router takes the first route that matches, in registration order;
\* 0 when none does.
FirstMatch(router, method, path) ==
    IF Matching(router, method, path) = {} THEN 0
    ELSE CHOOSE i \in Matching(router, method, path) :
             \A j \in Matching(router, method, path) : i <= j

(* ------------------- the API server: the handlers ---------------------- *)

\* A value of a request's body, query or parameters: undefined, a string
\* or a number.
Absent == [kind |-> "undefined", text |-> "", num |-> 0]

Text(s) == [kind |-> "string", text |-> s, num |-> 0]

Num(n) == [kind |-> "number", text |-> "", num |-> n]

\* The strings of the model that stand for an id of 24 hexadecimal digits;
\* the document ids of the model are their positions.
ObjectIds == << "id1", "id2", "id3", "id4", "id5" >>

\* The cast of a value to an ObjectId: the id, or 0 when the cast fails.
CastObjectId(v) ==
    IF v.kind = "string" /\ \E i \in 1..Len(ObjectIds) : ObjectIds[i] = v.text
    THEN CHOOSE i \in 1..Len(ObjectIds) : ObjectIds[i] = v.text
    ELSE 0

\* The enum of the status of a unit.
Statuses == {"ACTIVE", "INACTIVE", "MAINTENANCE", "FAULT"}

\* A string of the server is written as a request path carries it: a
\* printable character of ASCII as itself, any other (and %, and the grave
\* accent) as the bytes of its UTF-8 form in hexadecimal, each after a %.
\* The paths of the requests have characters below U+0800 (one or two
\* bytes) and are well formed; the capital of such a character may be one
\* of three bytes, below U+10000.  Ascii has the characters from U+0020
\* to U+005F, Small those from U+0061 to U+007E.
Ascii ==
    " !\"#$%&'()*+,-./0123456789:;<=>?@ABCDEFGHIJKLMNOPQRSTUVWXYZ[\\]^_"

Small == "abcdefghijklmnopqrstuvwxyz{|}~"

\* The code point of the character c, a printable one of ASCII.
CodePoint(c) ==
    IF \E i \in 1..Len(Ascii) : SubSeq(Ascii, i, i) = c
    THEN 31 + CHOOSE i \in 1..Len(Ascii) : SubSeq(Ascii, i, i) = c
    ELSE 96 + CHOOSE i \in 1..Len(Small) : SubSeq(Small, i, i) = c

\* The value of a hexadecimal digit, in either case.
HexDigit(d) ==
    CHOOSE v \in 0..15 : \/ SubSeq("0123456789ABCDEF", v + 1, v + 1) = d
                         \/ SubSeq("0123456789abcdef", v + 1, v + 1) = d

\* The byte b as %XX.
Escaped(b) ==
    "%" \o SubSeq("0123456789ABCDEF", (b \div 16) + 1, (b \div 16) + 1)
        \o SubSeq("0123456789ABCDEF", (b % 16) + 1, (b % 16) + 1)

\* The code points of the characters of the string written s, which are
\* below U+0800.
RECURSIVE CodePoints(_)
CodePoints(s) ==
    IF Len(s) = 0 THEN << >>
    ELSE IF SubSeq(s, 1, 1) # "%"
    THEN << CodePoint(SubSeq(s, 1, 1)) >> \o CodePoints(SubSeq(s, 2, Len(s)))
    ELSE IF HexDigit(SubSeq(s, 2, 2)) < 8
    THEN << 16 * HexDigit(SubSeq(s, 2, 2)) + HexDigit(SubSeq(s, 3, 3)) >>
         \o CodePoints(SubSeq(s, 4, Len(s)))
    ELSE << (16 * HexDigit(SubSeq(s, 2, 2)) + HexDigit(SubSeq(s, 3, 3)) - 192)
              * 64
            + 16 * HexDigit(SubSeq(s, 5, 5)) + HexDigit(SubSeq(s, 6, 6))
            - 128 >>
         \o CodePoints(SubSeq(s, 7, Len(s)))

\* The string of the characters of the code points cs, which are below
\* U+10000, written.
RECURSIVE Written(_)
Written(cs) ==
    IF Len(cs) = 0 THEN ""
    ELSE (IF Head(cs) >= 32 /\ Head(cs) <= 95 /\ Head(cs) # 37
          THEN SubSeq(Ascii, Head(cs) - 31, Head(cs) - 31)
          ELSE IF Head(cs) >= 97 /\ Head(cs) <= 126
          THEN SubSeq(Small, Head(cs) - 96, Head(cs) - 96)
          ELSE IF Head(cs) < 128 THEN Escaped(Head(cs))
          ELSE IF Head(cs) < 2048
          THEN Escaped(192 + (Head(cs) \div 64))
                  \o Escaped(128 + (Head(cs) % 64))
          ELSE Escaped(224 + (Head(cs) \div 4096))
                  \o Escaped(128 + ((Head(cs) \div 64) % 64))
                  \o Escaped(128 + (Head(cs) % 64)))
         \o Written(Tail(cs))

\* decodeURIComponent, which Express applies to the segment of a path
\* before it is a parameter: the characters the segment stands for.
DecodeURIComponent(s) == Written(CodePoints(s))

\* The capitals of the character of code point c, as String.prototype.
\* toUpperCase gives them: the Unicode default case conversion, whatever
\* the locale, for the characters below U+0800.  A character with an
\* entry in SpecialCasing becomes the characters of the entry: sharp s is
\* SS, n preceded by apostrophe is the modifier apostrophe and N, j with
\* caron is J and a combining caron, iota and upsilon with dialytika and
\* tonos are the capital and the two combining marks, the Armenian
\* ligature ech yiwn is the two capitals.  Any other character with a
\* simple upper-case mapping in UnicodeData (version 16) becomes the
\* character of the mapping: runs has these mappings, a run
\* << first, last, step, delta >> for the characters first, first + step,
\* .., last, each of which becomes the character delta after it.  A
\* character without a mapping is its own capital.
Upper(c) ==
    LET runs ==
            << << 97, 122, 1, -32 >>, << 181, 181, 1, 743 >>,
               << 224, 246, 1, -32 >>, << 248, 254, 1, -32 >>,
               << 255, 255, 1, 121 >>, << 257, 303, 2, -1 >>,
               << 305, 305, 1, -232 >>, << 307, 311, 2, -1 >>,
               << 314, 328, 2, -1 >>, << 331, 375, 2, -1 >>,
               << 378, 382, 2, -1 >>, << 383, 383, 1, -300 >>,
               << 384, 384, 1, 195 >>, << 387, 389, 2, -1 >>,
               << 392, 392, 1, -1 >>, << 396, 396, 1, -1 >>,
               << 402, 402, 1, -1 >>, << 405, 405, 1, 97 >>,
               << 409, 409, 1, -1 >>, << 410, 410, 1, 163 >>,
               << 411, 411, 1, 42561 >>, << 414, 414, 1, 130 >>,
               << 417, 421, 2, -1 >>, << 424, 424, 1, -1 >>,
               << 429, 429, 1, -1 >>, << 432, 432, 1, -1 >>,
               << 436, 438, 2, -1 >>, << 441, 441, 1, -1 >>,
               << 445, 445, 1, -1 >>, << 447, 447, 1, 56 >>,
               << 453, 453, 1, -1 >>, << 454, 454, 1, -2 >>,
               << 456, 456, 1, -1 >>, << 457, 457, 1, -2 >>,
               << 459, 459, 1, -1 >>, << 460, 460, 1, -2 >>,
               << 462, 476, 2, -1 >>, << 477, 477, 1, -79 >>,
               << 479, 495, 2, -1 >>, << 498, 498, 1, -1 >>,
               << 499, 499, 1, -2 >>, << 501, 501, 1, -1 >>,
               << 505, 543, 2, -1 >>, << 547, 563, 2, -1 >>,
               << 572, 572, 1, -1 >>, << 575, 576, 1, 10815 >>,
               << 578, 578, 1, -1 >>, << 583, 591, 2, -1 >>,
               << 592, 592, 1, 10783 >>, << 593, 593, 1, 10780 >>,
               << 594, 594, 1, 10782 >>, << 595, 595, 1, -210 >>,
               << 596, 596, 1, -206 >>, << 598, 599, 1, -205 >>,
               << 601, 601, 1, -202 >>, << 603, 603, 1, -203 >>,
               << 604, 604, 1, 42319 >>, << 608, 608, 1, -205 >>,
               << 609, 609, 1, 42315 >>, << 611, 611, 1, -207 >>,
               << 612, 612, 1, 42343 >>, << 613, 613, 1, 42280 >>,
               << 614, 614, 1, 42308 >>, << 616, 616, 1, -209 >>,
               << 617, 617, 1, -211 >>, << 618, 618, 1, 42308 >>,
               << 619, 619, 1, 10743 >>, << 620, 620, 1, 42305 >>,
               << 623, 623, 1, -211 >>, << 625, 625, 1, 10749 >>,
               << 626, 626, 1, -213 >>, << 629, 629, 1, -214 >>,
               << 637, 637, 1, 10727 >>, << 640, 640, 1, -218 >>,
               << 642, 642, 1, 42307 >>, << 643, 643, 1, -218 >>,
               << 647, 647, 1, 42282 >>, << 648, 648, 1, -218 >>,
               << 649, 649, 1, -69 >>, << 650, 651, 1, -217 >>,
               << 652, 652, 1, -71 >>, << 658, 658, 1, -219 >>,
               << 669, 669, 1, 42261 >>, << 670, 670, 1, 42258 >>,
               << 837, 837, 1, 84 >>, << 881, 883, 2, -1 >>,
               << 887, 887, 1, -1 >>, << 891, 893, 1, 130 >>,
               << 940, 940, 1, -38 >>, << 941, 943, 1, -37 >>,
               << 945, 961, 1, -32 >>, << 962, 962, 1, -31 >>,
               << 963, 971, 1, -32 >>, << 972, 972, 1, -64 >>,
               << 973, 974, 1, -63 >>, << 976, 976, 1, -62 >>,
               << 977, 977, 1, -57 >>, << 981, 981, 1, -47 >>,
               << 982, 982, 1, -54 >>, << 983, 983, 1, -8 >>,
               << 985, 1007, 2, -1 >>, << 1008, 1008, 1, -86 >>,
               << 1009, 1009, 1, -80 >>, << 1010, 1010, 1, 7 >>,
               << 1011, 1011, 1, -116 >>, << 1013, 1013, 1, -96 >>,
               << 1016, 1016, 1, -1 >>, << 1019, 1019, 1, -1 >>,
               << 1072, 1103, 1, -32 >>, << 1104, 1119, 1, -80 >>,
               << 1121, 1153, 2, -1 >>, << 1163, 1215, 2, -1 >>,
               << 1218, 1230, 2, -1 >>, << 1231, 1231, 1, -15 >>,
               << 1233, 1327, 2, -1 >>, << 1377, 1414, 1, -48 >> >>
        Covers(r) == c >= r[1] /\ c <= r[2] /\ (c - r[1]) % r[3] = 0
    IN
    IF c = 223 THEN << 83, 83 >>
    ELSE IF c = 329 THEN << 700, 78 >>
    ELSE IF c = 496 THEN << 74, 780 >>
    ELSE IF c = 912 THEN << 921, 776, 769 >>
    ELSE IF c = 944 THEN << 933, 776, 769 >>
    ELSE IF c = 1415 THEN << 1333, 1362 >>
    ELSE IF \E i \in 1..Len(runs) : Covers(runs[i])
    THEN << c + runs[CHOOSE i \in 1..Len(runs) : Covers(runs[i])][4] >>
    ELSE << c >>

\* The capitals of the characters of code points cs, one after the other.
RECURSIVE Capitals(_)
Capitals(cs) ==
    IF Len(cs) = 0 THEN << >>
    ELSE Upper(Head(cs)) \o Capitals(Tail(cs))

\* s.toUpperCase()
ToUpperCase(s) == Written(Capitals(CodePoints(s)))

\* z.string().min(1)
NonEmptyString(v) == v.kind = "string" /\ v.text # ""

\* z.enum of the statuses, optional
OptionalStatus(v) ==
    v = Absent \/ (v.kind = "string" /\ v.text \in Statuses)

\* CreateSolarUnitDTO.safeParse(body).success
CreateSolarUnitDTO(body) ==
    /\ NonEmptyString(body.userId)
    /\ NonEmptyString(body.serialNumber)
    /\ body.capacity.kind = "number" /\ body.capacity.num > 0
    /\ OptionalStatus(body.status)

\* UpdateSolarUnitDTO.safeParse(body).success
UpdateSolarUnitDTO(body) ==
    /\ body.capacity = Absent
          \/ (body.capacity.kind = "number" /\ body.capacity.num > 0)
    /\ OptionalStatus(body.status)

\* CreateEnergyGenerationRecordDTO.safeParse(body).success
CreateEnergyGenerationRecordDTO(body) ==
    /\ NonEmptyString(body.solarUnitId)
    /\ body.energyProduced.kind = "number" /\ body.energyProduced.num >= 0

\* UpdateEnergyGenerationRecordDTO.safeParse(body).success
UpdateEnergyGenerationRecordDTO(body) ==
    body.energyProduced = Absent
       \/ (body.energyProduced.kind = "number" /\ body.energyProduced.num >= 0)

\* GetEnergyRecordsByDateRangeDTO.safeParse(query).success
GetEnergyRecordsByDateRangeDTO(query) ==
    query.startDate.kind = "string" /\ query.endDate.kind = "string"

\* The answer of a database operation that the handler awaiting it has
\* not received, none: what the handler does when it receives it, which
\* is to call the operation number at, to respond, or to throw.
NoResult == [at |-> 0, status |-> 0, thrown |-> "none"]

\* A request to the server, none yet.
NoRequest ==
    [stage |-> "idle", router |-> "none", method |-> "", path |-> << >>,
     authorization |-> Undefined, role |-> NoRole,
     body |-> [userId |-> Absent, serialNumber |-> Absent,
               capacity |-> Absent, status |-> Absent,
               solarUnitId |-> Absent, energyProduced |-> Absent],
     query |-> [startDate |-> Absent, endDate |-> Absent, period |-> Absent],
     layer |-> 0, stack |-> << >>, target |-> "none", handler |-> "none",
     at |-> 0, result |-> NoResult, thrown |-> "none", status |-> 0]

\* req.params of the route the request has entered: the segment of the
\* path at the place of the parameter, decoded, undefined if the route has
\* none of the name.
Param(r, name) ==
    LET pattern == Routes(r.router)[r.layer].path
    IN  IF \E i \in 1..Len(pattern) : pattern[i] = name
        THEN Text(DecodeURIComponent(
                    r.path[CHOOSE i \in 1..Len(pattern) : pattern[i] = name]))
        ELSE Absent

\* What a handler does up to its first await: the error it throws, or
\* "await" when it has called the database.
Enter(r) ==
    CASE r.target = "createEnergyGenerationRecord" ->
            IF ~CreateEnergyGenerationRecordDTO(r.body)
            THEN "ValidationError" ELSE "await"
      [] r.target = "getEnergyRecordsByDateRange" ->
            IF ~GetEnergyRecordsByDateRangeDTO(r.query)
            THEN "ValidationError" ELSE "await"
      [] r.target = "updateEnergyGenerationRecord" ->
            IF ~UpdateEnergyGenerationRecordDTO(r.body)
            THEN "ValidationError" ELSE "await"
      [] r.target = "getEnergyAnalytics" ->
            IF r.query.period # Absent
               /\ r.query.period \notin
                     {Text("daily"), Text("weekly"), Text("monthly")}
            THEN "ValidationError"
            ELSE IF CastObjectId(Param(r, ":solarUnitId")) = 0
                 THEN "BSONError" ELSE "await"
      [] r.target = "getTotalEnergyProduced" ->
            IF CastObjectId(Param(r, ":solarUnitId")) = 0
            THEN "BSONError" ELSE "await"
      [] r.target = "createSolarUnit" ->
            IF ~CreateSolarUnitDTO(r.body)
            THEN "ValidationError" ELSE "await"
      [] r.target = "updateSolarUnit" ->
            IF ~UpdateSolarUnitDTO(r.body)
            THEN "ValidationError" ELSE "await"
      [] r.target = "getSolarUnitsByStatus" ->
            IF ToUpperCase(Param(r, ":status").text) \notin Statuses
            THEN "ValidationError" ELSE "await"
      [] r.target = "updateSolarUnitStatus" ->
            IF ~(r.body.status.kind = "string"
                 /\ r.body.status.text \in Statuses)
            THEN "ValidationError" ELSE "await"
      [] OTHER -> "await"

\* What follows an awaited database operation once its answer has
\* arrived: the next await, the response, or the error thrown; d is the
\* database after the operation.
Await(d, k) == [db |-> d, at |-> k, status |-> 0, thrown |-> "none"]

Respond(d, s) == [db |-> d, at |-> 0, status |-> s, thrown |-> "none"]

Throw(d, e) == [db |-> d, at |-> 0, status |-> 0, thrown |-> e]

\* Model.findById(v) and the like, then if (!document) throw new
\* NotFoundError: found is the documents of the id, then is what follows
\* when there is one.  An id that is no ObjectId is a CastError, an
\* undefined one finds nothing.
ById(d, v, found, then) ==
    IF v # Absent /\ CastObjectId(v) = 0 THEN Throw(d, "CastError")
    ELSE IF v = Absent \/ found = {} THEN Throw(d, "NotFoundError")
    ELSE then

\* The units and the readings of an id, and the readings of a unit.
UnitsOfId(d, v) == { u \in d.units : u.id = CastObjectId(v) }

ReadingsOfId(d, v) == { e \in d.readings : e.id = CastObjectId(v) }

ReadingsOfUnit(d, v) == { e \in d.readings : e.solarUnitId = CastObjectId(v) }

\* The database with the documents of a set replaced by those of another.
WithUnits(d, old, new) == [d EXCEPT !.units = (@ \ old) \cup new]

WithReadings(d, old, new) == [d EXCEPT !.readings = (@ \ old) \cup new]

\* await energyRecord.save(): the reading is stored with a new id.
SaveReading(d, r) ==
    [d EXCEPT !.readings = @ \cup
                 {[id |-> d.issued + 1,
                   solarUnitId |-> CastObjectId(r.body.solarUnitId),
                   energyProduced |-> r.body.energyProduced.num]},
              !.issued = @ + 1]

\* await solarUnit.save(): the unit is stored with a new id.
SaveSolarUnit(d, r) ==
    [d EXCEPT !.units = @ \cup
                 {[id |-> d.issued + 1,
                   serialNumber |-> r.body.serialNumber.text,
                   capacity |-> r.body.capacity.num,
                   status |-> IF r.body.status = Absent THEN "INACTIVE"
                              ELSE r.body.status.text]},
              !.issued = @ + 1]

\* updateData applied to a reading, and to a unit.
UpdatedReading(e, body) ==
    [e EXCEPT !.energyProduced =
        IF body.energyProduced = Absent THEN @ ELSE body.energyProduced.num]

UpdatedUnit(u, body) ==
    [u EXCEPT !.capacity = IF body.capacity = Absent THEN @
                           ELSE body.capacity.num,
              !.status = IF body.status = Absent THEN @
                         ELSE body.status.text]

\* The database operation the handler awaits as its number r.at is done,
\* on the database d: the database after it, and what the handler does
\* when the answer arrives, which is its next await, its response or its
\* throw.  The handlers of the first energy-records router are those of
\* the other two.  Of the three handlers of the guarded
\* solar-units router that the sources do not hold, nothing is known:
\* they respond or throw, and leave the database as it is.
Reply(r, d) ==
    LET id == Param(r, ":id")
        unit == Param(r, ":solarUnitId")
    IN
    CASE r.handler = "createEnergyGenerationRecord" ->
            IF r.at = 1
            THEN { ById(d, r.body.solarUnitId,
                        UnitsOfId(d, r.body.solarUnitId), Await(d, 2)) }
            ELSE { Respond(SaveReading(d, r), 201) }
      [] r.handler = "getEnergyRecordsBySolarUnit" ->
            IF r.at = 1
            THEN { IF CastObjectId(unit) = 0 THEN Throw(d, "CastError")
                   ELSE Await(d, 2) }
            ELSE { Respond(d, 200) }
      [] r.handler = "getEnergyRecordsByDateRange" ->
            IF r.at = 1
            THEN { ById(d, unit, UnitsOfId(d, unit), Await(d, 2)) }
            ELSE { Respond(d, 200) }
      [] r.handler = "getEnergyRecordById" ->
            { ById(d, id, ReadingsOfId(d, id), Respond(d, 200)) }
      [] r.handler = "updateEnergyGenerationRecord" ->
            { ById(d, id, ReadingsOfId(d, id),
                   Respond(WithReadings(d, ReadingsOfId(d, id),
                              { UpdatedReading(e, r.body) :
                                  e \in ReadingsOfId(d, id) }), 200)) }
      [] r.handler = "deleteEnergyGenerationRecord" ->
            { ById(d, id, ReadingsOfId(d, id),
                   Respond(WithReadings(d, ReadingsOfId(d, id), {}), 200)) }
      [] r.handler = "getLatestEnergyRecord" ->
            { IF CastObjectId(unit) = 0 THEN Throw(d, "CastError")
              ELSE IF ReadingsOfUnit(d, unit) = {}
                   THEN Throw(d, "NotFoundError")
                   ELSE Respond(d, 200) }
      [] r.handler = "getEnergyAnalytics" -> { Respond(d, 200) }
      [] r.handler = "getTotalEnergyProduced" ->
            { IF ReadingsOfUnit(d, unit) = {}
              THEN Throw(d, "NotFoundError")
              ELSE Respond(d, 200) }
      [] r.handler = "getSolarUnitById" ->
            { ById(d, id, UnitsOfId(d, id), Respond(d, 200)) }
      [] r.handler = "createSolarUnit" ->
            { IF \E u \in d.units :
                    u.serialNumber = r.body.serialNumber.text
              THEN Throw(d, "MongoServerError")
              ELSE Respond(SaveSolarUnit(d, r), 201) }
      [] r.handler = "updateSolarUnit" ->
            { ById(d, id, UnitsOfId(d, id),
                   Respond(WithUnits(d, UnitsOfId(d, id),
                              { UpdatedUnit(u, r.body) :
                                  u \in UnitsOfId(d, id) }), 200)) }
      [] r.handler = "updateSolarUnitStatus" ->
            { ById(d, id, UnitsOfId(d, id),
                   Respond(WithUnits(d, UnitsOfId(d, id),
                              { [u EXCEPT !.status = r.body.status.text] :
                                  u \in UnitsOfId(d, id) }), 200)) }
      [] r.handler = "deleteSolarUnit" ->
            { ById(d, id, UnitsOfId(d, id),
                   Respond(WithUnits(d, UnitsOfId(d, id), {}), 200)) }
      [] r.handler \in {"getUnassignedSolarUnits", "assignUserToSolarUnit",
                        "unassignUserFromSolarUnit"} ->
            { Respond(d, 200), Throw(d, "ValidationError"),
              Throw(d, "NotFoundError"), Throw(d, "Error") }
      [] OTHER -> { Respond(d, 200) }

\* The clients of the server: each sends one request.
Clients == {"a", "b"}

\* The server with SOLARPANEL_API_SECRET as given, connectDB() called and
\* not settled, and no request yet.
Listening(secret) ==
    [secret |-> secret, connect |-> "pending",
     req |-> [c \in Clients |-> NoRequest]]

\* The seeding process has no server.
NoServer == [Listening(Undefined) EXCEPT !.connect = "off"]

(* ------------------------------- the state ----------------------------- *)

VARIABLES
    anomalyCounts,         \* type -> occurrences (module state)
    anomalies,             \* the anomaly log (module state)
    capacity,              \* savedSolarUnit.capacity
    now,                   \* new Date(), in minutes since startDate
    daysDifference,        \* Math.ceil((now - startDate) / one day)
    totalExpectedRecords,  \* (daysDifference + 1) * 12
    day, hour,             \* the loop variables
    previousEnergy,
    currentRecordIndex,
    records,               \* the readings emitted: [timestamp, energyProduced]
    pc,                    \* where seedDatabase is
    last,                  \* the latest call of generateEnergyProduction
    warm,                  \* the draws of every call before the free ones
    zone,                  \* the time zone of the process
    connected,             \* the process's mongoose connection is open
    clock,                 \* the latest time a process has read
    db,                    \* the database: units, readings
    other,                 \* a second seeding process, not stepping now
    http                   \* the API server: its environment and its request

vars == << anomalyCounts, anomalies, capacity, now, daysDifference,
           totalExpectedRecords, day, hour, previousEnergy,
           currentRecordIndex, records, pc, last, warm, zone, connected,
           clock, db, other, http >>

\* The observation of one call: its arguments, the draws it consumed, the
\* value it returned and its locals shouldAnomaly and anomalyType.
CallRecord(h, cap, ts, prev, total, cur, rs, out) ==
    [called |-> TRUE, hour |-> h, capacity |-> cap, timestamp |-> ts,
     previousEnergy |-> prev, totalRecords |-> total, currentRecord |-> cur,
     rnd |-> SubSeq(rs, 1, Len(rs) - Len(out.rest)),
     energy |-> out.energy, shouldAnomaly |-> out.shouldAnomaly,
     anomalyType |-> out.anomalyType]

NoCall ==
    [called |-> FALSE, hour |-> 0, capacity |-> 0, timestamp |-> 0,
     previousEnergy |-> 0, totalRecords |-> 0, currentRecord |-> 0,
     rnd |-> << >>, energy |-> 0, shouldAnomaly |-> FALSE,
     anomalyType |-> "null"]

(* ------------------------------- local time ---------------------------- *)

\* Time is counted in minutes from startDate = new Date(2025, 5, 1), the
\* midnight that begins June 1, 2025 in the time zone of the process.

\* The time zones of the process: one whose offset does not change (UTC,
\* Asia/Kolkata, ...), and four whose offset does, by an hour, by half an
\* hour and by two hours (the length of an interval of the loops).
Zones == {"UTC", "America/New_York", "Europe/Berlin", "Australia/Lord_Howe",
          "Antarctica/Troll"}

\* The changes of offset of a zone after startDate: from the hour of the
\* day on, a local time is later by shift minutes than the time passed
\* since startDate would have it.  A local time that a change repeats or
\* skips is read with the offset before the change (ECMAScript, LocalTime
\* and UTC(t)): 01:00 of November 2, 2025 in New York is the first of the
\* two, 02:00 of March 8, 2026 is 03:00 of the new offset.  At Troll the
\* clocks go from 03:00 back to 01:00 on October 26, 2025 and from 01:00 on
\* to 03:00 on March 29, 2026: 02:00 of that day, which the change skips,
\* is 04:00 of the new offset.
Transitions(z) ==
    CASE z = "America/New_York" ->
            << [day |-> 154, hour |-> 2, shift |-> 60],
               [day |-> 280, hour |-> 3, shift |-> 0],
               [day |-> 518, hour |-> 2, shift |-> 60],
               [day |-> 651, hour |-> 3, shift |-> 0] >>
      [] z = "Europe/Berlin" ->
            << [day |-> 147, hour |-> 3, shift |-> 60],
               [day |-> 301, hour |-> 3, shift |-> 0],
               [day |-> 511, hour |-> 3, shift |-> 60],
               [day |-> 665, hour |-> 3, shift |-> 0] >>
      [] z = "Antarctica/Troll" ->
            << [day |-> 147, hour |-> 3, shift |-> 120],
               [day |-> 301, hour |-> 3, shift |-> 0],
               [day |-> 511, hour |-> 3, shift |-> 120],
               [day |-> 665, hour |-> 3, shift |-> 0] >>
      [] z = "Australia/Lord_Howe" ->
            << [day |-> 126, hour |-> 3, shift |-> 0 - 30],
               [day |-> 308, hour |-> 2, shift |-> 0],
               [day |-> 490, hour |-> 3, shift |-> 0 - 30],
               [day |-> 672, hour |-> 2, shift |-> 0] >>
      [] OTHER -> << >>

\* The shift of the local time h o'clock of day d.
Shift(z, d, h) ==
    LET T == Transitions(z)
        past == { i \in 1..Len(T) :
                    T[i].day < d \/ (T[i].day = d /\ T[i].hour <= h) }
    IN  IF Len(T) = 0 \/ d < T[1].day \/ past = {} THEN 0
        ELSE T[CHOOSE i \in past : \A j \in past : j <= i].shift

\* Math.ceil((now - startDate) / (1000 * 60 * 60 * 24)), now in minutes.
DaysDifference(n) == (n + 1439) \div 1440

\* Mutation of TotalExpectedRecords: the day of now is not counted.
TotalExpectedRecordsWithoutToday(n) == DaysDifference(n) * 12

\* (daysDifference + 1) * 12
TotalExpectedRecords(n) == (DaysDifference(n) + 1) * 12

\* timestamp.setDate(startDate.getDate() + day); timestamp.setHours(hour)
Timestamp(z, d, h) == (d * 24 + h) * 60 + Shift(z, d, h)

\* Mutation of IsFuture: the interval that starts at now is not generated.
IsFutureOrNow(timestamp, n) == timestamp >= n

\* timestamp > now
IsFuture(timestamp, n) == timestamp > n

(* ------------------------------ the run driver ------------------------- *)

\* Mutation of LoopBody: previousEnergy is updated with every reading.
LoopBodyOverwriting(s, ts, h, cap, total, rs) ==
    With(GenerateEnergyProduction(h, cap, ts,
             s.previousEnergy, total, s.currentRecordIndex,
             s.anomalyCounts, s.anomalies, rs),
         LAMBDA out :
           [anomalyCounts      |-> out.counts,
            anomalies          |-> out.anomalies,
            records            |-> Append(s.records,
                                      [timestamp |-> ts,
                                       energyProduced |-> out.energy]),
            currentRecordIndex |-> s.currentRecordIndex + 1,
            previousEnergy     |-> out.energy,
            last               |-> CallRecord(h, cap, ts,
                                      s.previousEnergy, total,
                                      s.currentRecordIndex, rs, out)])

\* Mutation of LoopBody: the record is put in front of those pushed before.
LoopBodyPrepending(s, ts, h, cap, total, rs) ==
    With(GenerateEnergyProduction(h, cap, ts,
             s.previousEnergy, total, s.currentRecordIndex,
             s.anomalyCounts, s.anomalies, rs),
         LAMBDA out :
           [anomalyCounts      |-> out.counts,
            anomalies          |-> out.anomalies,
            records            |-> << [timestamp |-> ts,
                                       energyProduced |-> out.energy] >>
                                      \o s.records,
            currentRecordIndex |-> s.currentRecordIndex + 1,
            previousEnergy     |-> IF out.energy > 0 THEN out.energy
                                   ELSE s.previousEnergy,
            last               |-> CallRecord(h, cap, ts,
                                      s.previousEnergy, total,
                                      s.currentRecordIndex, rs, out)])

\* One pass of the loop body for the interval of hour h and timestamp ts:
\* the call, the record pushed, currentRecordIndex++ and the update of
\* previousEnergy.  s holds the module state and the driver's locals.
LoopBody(s, ts, h, cap, total, rs) ==
    With(GenerateEnergyProduction(h, cap, ts,
             s.previousEnergy, total, s.currentRecordIndex,
             s.anomalyCounts, s.anomalies, rs),
         LAMBDA out :
           [anomalyCounts      |-> out.counts,
            anomalies          |-> out.anomalies,
            records            |-> Append(s.records,
                                      [timestamp |-> ts,
                                       energyProduced |-> out.energy]),
            currentRecordIndex |-> s.currentRecordIndex + 1,
            previousEnergy     |-> IF out.energy > 0 THEN out.energy
                                   ELSE s.previousEnergy,
            last               |-> CallRecord(h, cap, ts,
                                      s.previousEnergy, total,
                                      s.currentRecordIndex, rs, out)])

\* The timestamp of the interval number i of the loops, from 0.
Boundary(z, i) == Timestamp(z, i \div 12, 2 * (i % 12))

\* The number of readings a run emits whose now is n: the intervals are
\* gone through in ascending order of timestamp, up to the first that is
\* later than n.  A shift moves the count by one interval at most; two
\* intervals of one timestamp are both emitted or both not.
Emitted(z, n) ==
    LET base == (n \div 120) + 1
    IN  CHOOSE c \in (base - 1)..(base + 1) :
           /\ c >= 0
           /\ c > 0 => ~IsFuture(Boundary(z, c - 1), n)
           /\ IsFuture(Boundary(z, c), n)

\* The last intervals of a run, explored with every draw of Rand; in those
\* before them every call draws the same values, the stream warm.
FreeSteps == 1

\* The streams warm may be: never a trigger; always a trigger and the first
\* type of the list; always a trigger and the last type of the list.
Warmups == { << 99, 50 >>, << 0, 0, 50, 50 >>, << 0, 99, 50, 50 >> }

\* The hours since startDate of the values of "now", without a shift:
\* within the first day the start itself, odd hours of the night, the
\* morning and the day, and the next midnight exactly; and the morning, the
\* early and the late afternoon and the last hour of later days (a run of
\* 42 days emits 504 readings); an interval boundary of the day; and the
\* hours at which the last record is number 42 and number 43 of 60 (a
\* progress of 0.7 exactly, and above).
NowHours ==
    {0, 5, 7, 9, 11, 15, 19, 21, 24}
    \cup { d * 24 + h : d \in {2, 10, 26, 41}, h \in {9, 13, 17, 23} }
    \cup {10, 85, 87}

\* The values new Date() may have at line 212, by the zone of the process:
\* without a shift the hours above, a minute before a boundary and a minute
\* after one; in New York a minute before the boundary 02:00 of the day the
\* offset changes, which is an hour later than 02:00 would be without the
\* change; in Berlin the boundary 04:00 of that day exactly; on Lord Howe
\* Island the boundary 04:00 of that day exactly, half an hour earlier; at
\* Troll a boundary of the second day (the days on which its clocks change
\* are those of DayInit).
Nows(z) ==
    CASE z = "America/New_York" -> { Timestamp(z, 154, 2) - 1 }
      [] z = "Europe/Berlin" -> { Timestamp(z, 147, 4) }
      [] z = "Australia/Lord_Howe" -> { Timestamp(z, 126, 4) }
      [] z = "Antarctica/Troll" -> { Timestamp(z, 1, 4) }
      [] OTHER -> { h * 60 : h \in NowHours } \cup {359, 361}

PrefixLen(z, n) ==
    IF Emitted(z, n) > FreeSteps THEN Emitted(z, n) - FreeSteps ELSE 0

\* The streams the call a may draw as record number cur of a run.
Draws(a, cur) ==
    IF cur < PrefixLen(zone, now)
    THEN { SubSeq(Pad(warm), 1,
                  Len(Pad(warm)) - Len(Call(a, Pad(warm)).rest)) }
    ELSE Streams(a)

\* The serial number of the unit the seed creates; unique in the schema.
SerialNumber == "SU-2024-001"

\* What the database holds before the run: the unit and a reading of an
\* earlier seeding.
EarlierData ==
    [units |-> {SerialNumber},
     readings |-> << [timestamp |-> 0, energyProduced |-> 7] >>]

Databases == { EarlierData }

\* No second process.
NoProcess ==
    [pc |-> "none", capacity |-> 0, now |-> 0, daysDifference |-> 0,
     totalExpectedRecords |-> 0, day |-> 0, hour |-> 0,
     previousEnergy |-> 0, currentRecordIndex |-> 0, records |-> << >>,
     counts |-> ZeroCounts, log |-> << >>, last |-> NoCall,
     warm |-> << >>, zone |-> "UTC", connected |-> FALSE]

\* A process in which the module has just been loaded and seedDatabase
\* called: the counts and the log as their initialisers make them, no
\* connection yet.
FreshProcess(w, z) == [NoProcess EXCEPT !.pc = "connect", !.warm = w, !.zone = z]

\* The module just loaded and seedDatabase called, in a zone of Z.
Boot(Z) ==
    /\ zone \in Z
    /\ warm \in Warmups
    /\ db \in Databases
    /\ clock = 0
    /\ connected = FALSE
    /\ capacity = 0
    /\ now = 0
    /\ daysDifference = 0
    /\ totalExpectedRecords = 0
    /\ day = 0
    /\ hour = 0
    /\ anomalyCounts = ZeroCounts
    /\ anomalies = << >>
    /\ records = << >>
    /\ currentRecordIndex = 0
    /\ previousEnergy = 0
    /\ last = NoCall
    /\ pc = "connect"

Init == Boot(Zones) /\ other = NoProcess /\ http = NoServer

\* An awaited database operation takes two steps: the database does the
\* operation, or refuses it, and the answer is on its way; then the answer
\* arrives and seedDatabase goes on from the await.  Between the two the
\* process is at the await and another process may step.

\* await connectDB(): mongoose.connect succeeds, or fails and the error is
\* logged and swallowed; either way seedDatabase goes on, and calls
\* EnergyGenerationRecord.deleteMany({}).  A connection the process has
\* open stays open.
Connect ==
    /\ pc = "connect"
    /\ \E ok \in BOOLEAN : connected' = (connected \/ ok)
    /\ pc' = "clearReadings"
    /\ UNCHANGED << anomalyCounts, anomalies, capacity, now, daysDifference,
                    totalExpectedRecords, day, hour, previousEnergy,
                    currentRecordIndex, records, last, warm, zone, clock,
                    db, other, http >>

\* EnergyGenerationRecord.deleteMany({}): the database deletes the
\* readings.
ClearReadings ==
    /\ pc = "clearReadings"
    /\ connected
    /\ db' = [db EXCEPT !.readings = << >>]
    /\ pc' = "readingsCleared"
    /\ UNCHANGED << anomalyCounts, anomalies, capacity, now, daysDifference,
                    totalExpectedRecords, day, hour, previousEnergy,
                    currentRecordIndex, records, last, warm, zone,
                    connected, clock, other, http >>

\* SolarUnit.deleteMany({}): the database deletes the units.
ClearUnits ==
    /\ pc = "clearUnits"
    /\ connected
    /\ db' = [db EXCEPT !.units = {}]
    /\ pc' = "unitsCleared"
    /\ UNCHANGED << anomalyCounts, anomalies, capacity, now, daysDifference,
                    totalExpectedRecords, day, hour, previousEnergy,
                    currentRecordIndex, records, last, warm, zone,
                    connected, clock, other, http >>

\* The answer of a deleteMany arrives: after the first seedDatabase calls
\* the second, after the second it goes on to the reset.
Cleared ==
    /\ pc \in {"readingsCleared", "unitsCleared"}
    /\ pc' = IF pc = "readingsCleared" THEN "clearUnits" ELSE "reset"
    /\ UNCHANGED << anomalyCounts, anomalies, capacity, now, daysDifference,
                    totalExpectedRecords, day, hour, previousEnergy,
                    currentRecordIndex, records, last, warm, zone,
                    connected, clock, db, other, http >>

\* The values of "now" of the runs of two processes: in the first night,
\* and the midnight that ends the first day.
TwoNows == {300, 1440}

\* The values the clock may show when a process reads it.
Readings == IF other.pc = "none" THEN Nows(zone) ELSE TwoNows

\* Mutation of Reset: the counts are set to 0 and the log is left.
ResetCountsOnly ==
    /\ pc = "reset"
    /\ anomalyCounts' = [ t \in DOMAIN anomalyCounts |-> 0 ]
    /\ anomalies' = anomalies
    /\ pc' = "save"
    /\ UNCHANGED << capacity, now, daysDifference, totalExpectedRecords, day,
                    hour, previousEnergy, currentRecordIndex, records, last,
                    warm, zone, connected, clock, db, other, http >>

\* Reset anomaly counts: every count to 0, anomalies.length = 0; then the
\* unit is made and solarUnit.save() called.
Reset ==
    /\ pc = "reset"
    /\ anomalyCounts' = [ t \in DOMAIN anomalyCounts |-> 0 ]
    /\ anomalies' = << >>
    /\ pc' = "save"
    /\ UNCHANGED << capacity, now, daysDifference, totalExpectedRecords, day,
                    hour, previousEnergy, currentRecordIndex, records, last,
                    warm, zone, connected, clock, db, other, http >>

\* solarUnit.save(): the database stores the unit, unless one of its
\* serial number is stored.
SaveUnit ==
    /\ pc = "save"
    /\ connected
    /\ SerialNumber \notin db.units
    /\ db' = [db EXCEPT !.units = @ \cup {SerialNumber}]
    /\ pc' = "saved"
    /\ UNCHANGED << anomalyCounts, anomalies, capacity, now, daysDifference,
                    totalExpectedRecords, day, hour, previousEnergy,
                    currentRecordIndex, records, last, warm, zone,
                    connected, clock, other, http >>

\* The answer of save() arrives: savedSolarUnit.capacity is the capacity
\* of the loop; now = new Date(), the time of this step and no earlier
\* than any time read before, and daysDifference and totalExpectedRecords
\* from it.
Saved ==
    /\ pc = "saved"
    /\ capacity' = SeedCapacity
    /\ \E n \in Readings :
          /\ n >= clock
          /\ now' = n
          /\ clock' = n
          /\ daysDifference' = DaysDifference(n)
          /\ totalExpectedRecords' = TotalExpectedRecords(n)
    /\ pc' = "loop"
    /\ UNCHANGED << anomalyCounts, anomalies, day, hour, previousEnergy,
                    currentRecordIndex, records, last, warm, zone,
                    connected, db, other, http >>

\* A database operation that has been called is refused: by mongoose when
\* it gives up buffering for a connection (without one every operation
\* is), by the database (save() of a serial number that is stored), or
\* because the network fails.  Nothing is stored or deleted by it: a
\* refused insertMany is taken to have stored none of the readings.
Refuse ==
    /\ pc \in {"clearReadings", "clearUnits", "save", "insert"}
    /\ pc' = "refused"
    /\ UNCHANGED << anomalyCounts, anomalies, capacity, now, daysDifference,
                    totalExpectedRecords, day, hour, previousEnergy,
                    currentRecordIndex, records, last, warm, zone,
                    connected, clock, db, other, http >>

\* The rejection arrives at the await: catch logs the error, finally
\* exits and the connection goes with the process.  Nothing is undone.
Fail ==
    /\ pc = "refused"
    /\ pc' = "failed"
    /\ connected' = FALSE
    /\ UNCHANGED << anomalyCounts, anomalies, capacity, now, daysDifference,
                    totalExpectedRecords, day, hour, previousEnergy,
                    currentRecordIndex, records, last, warm, zone, clock,
                    db, other, http >>

\* The loop body, for an interval that is not in the future.
GenerateRecord ==
    /\ pc = "loop"
    /\ hour < 24
    /\ ~IsFuture(Timestamp(zone, day, hour), now)
    /\ LET s == [anomalyCounts |-> anomalyCounts, anomalies |-> anomalies,
                 records |-> records,
                 currentRecordIndex |-> currentRecordIndex,
                 previousEnergy |-> previousEnergy]
           a == [hour |-> hour, capacity |-> capacity,
                 timestamp |-> Timestamp(zone, day, hour),
                 previousEnergy |-> previousEnergy,
                 totalRecords |-> totalExpectedRecords,
                 currentRecord |-> currentRecordIndex,
                 counts |-> anomalyCounts, log |-> anomalies]
       IN  \E rs \in Draws(a, currentRecordIndex) :
             \E b \in { LoopBody(s, Timestamp(zone, day, hour), hour,
                                 capacity, totalExpectedRecords, rs) } :
                 /\ anomalyCounts' = b.anomalyCounts
                 /\ anomalies' = b.anomalies
                 /\ records' = b.records
                 /\ currentRecordIndex' = b.currentRecordIndex
                 /\ previousEnergy' = b.previousEnergy
                 /\ last' = b.last
    /\ hour' = hour + 2
    /\ UNCHANGED << capacity, now, daysDifference, totalExpectedRecords,
                    day, pc, warm, zone, connected, clock, db, other, http >>

\* if (timestamp > now) break: the rest of the day is skipped.
FutureBreak ==
    /\ pc = "loop"
    /\ hour < 24
    /\ IsFuture(Timestamp(zone, day, hour), now)
    /\ pc' = "endDay"
    /\ UNCHANGED << anomalyCounts, anomalies, capacity, now, daysDifference,
                    totalExpectedRecords, day, hour, previousEnergy,
                    currentRecordIndex, records, last, warm, zone,
                    connected, clock, db, other, http >>

\* The inner loop ends at hour 24.
InnerLoopEnd ==
    /\ pc = "loop"
    /\ ~(hour < 24)
    /\ pc' = "endDay"
    /\ UNCHANGED << anomalyCounts, anomalies, capacity, now, daysDifference,
                    totalExpectedRecords, day, hour, previousEnergy,
                    currentRecordIndex, records, last, warm, zone,
                    connected, clock, db, other, http >>

\* if (day === daysDifference) break; otherwise day++ and the next day.
EndDay ==
    /\ pc = "endDay"
    /\ IF day = daysDifference
       THEN pc' = "insert" /\ UNCHANGED << day, hour >>
       ELSE pc' = "loop" /\ day' = day + 1 /\ hour' = 0
    /\ UNCHANGED << anomalyCounts, anomalies, capacity, now, daysDifference,
                    totalExpectedRecords, previousEnergy, currentRecordIndex,
                    records, last, warm, zone, connected, clock, db, other,
                    http >>

\* EnergyGenerationRecord.insertMany(records): the database stores the
\* readings.
InsertMany ==
    /\ pc = "insert"
    /\ connected
    /\ db' = [db EXCEPT !.readings = @ \o records]
    /\ pc' = "inserted"
    /\ UNCHANGED << anomalyCounts, anomalies, capacity, now, daysDifference,
                    totalExpectedRecords, day, hour, previousEnergy,
                    currentRecordIndex, records, last, warm, zone,
                    connected, clock, other, http >>

\* The answer of insertMany arrives: the summary, and process.exit(0):
\* the run and the process are over.
Inserted ==
    /\ pc = "inserted"
    /\ pc' = "done"
    /\ connected' = FALSE
    /\ UNCHANGED << anomalyCounts, anomalies, capacity, now, daysDifference,
                    totalExpectedRecords, day, hour, previousEnergy,
                    currentRecordIndex, records, last, warm, zone, clock,
                    db, other, http >>

Next == Connect \/ ClearReadings \/ ClearUnits \/ Cleared \/ Reset
            \/ SaveUnit \/ Saved \/ GenerateRecord \/ FutureBreak
            \/ InnerLoopEnd \/ EndDay \/ InsertMany \/ Inserted
            \/ Refuse \/ Fail

Spec == Init /\ [][Next]_vars

(* ------------------- a run on a later day of the range ----------------- *)

\* A run whose calls draw 0.99 for the trigger and 0.5 for the random
\* factor injects nothing: every reading is the baseline of its hour with
\* the factor 1, the counts stay 0 and the log empty.  What GenerateRecord
\* has made of the module and the locals of such a run, of a process in
\* zone z whose now is n, when the readings of the days before day d are
\* generated (d > 0): the readings but the last, and the loop body for
\* 22:00 of day d - 1.
DayStart(z, d, n) ==
    LoopBody([anomalyCounts |-> ZeroCounts, anomalies |-> << >>,
              records |->
                 [ i \in 1..(12 * d - 1) |->
                     [timestamp |-> Boundary(z, i - 1),
                      energyProduced |->
                         NormalProduction(2 * ((i - 1) % 12), SeedCapacity,
                                          << 50 >>).value] ],
              currentRecordIndex |-> 12 * d - 1,
              previousEnergy |->
                 NormalProduction(18, SeedCapacity, << 50 >>).value],
             Boundary(z, 12 * d - 1), 22, SeedCapacity,
             TotalExpectedRecords(n), << 99, 50 >>)

\* The runs of Spec are in that state at the start of each of their days
\* (an invariant of Spec, whose longest runs are of 154 days).
RunAtDayStart ==
    (/\ pc = "loop" /\ hour = 0 /\ day > 0 /\ warm = << 99, 50 >>
     /\ currentRecordIndex <= PrefixLen(zone, now))
        => \E b \in { DayStart(zone, day, now) } :
              /\ anomalyCounts = b.anomalyCounts
              /\ anomalies = b.anomalies
              /\ records = b.records
              /\ currentRecordIndex = b.currentRecordIndex
              /\ previousEnergy = b.previousEnergy
              /\ last = b.last
              /\ capacity = SeedCapacity
              /\ clock = now
              /\ daysDifference = DaysDifference(now)
              /\ totalExpectedRecords = TotalExpectedRecords(now)
              /\ connected
              /\ db = [units |-> {SerialNumber}, readings |-> << >>]

\* Such a run at the start of the day d of its last readings, in every
\* zone: a day on which the clocks of the zone change, in the autumn and
\* in the spring (at Troll by two hours), and the second day where they
\* never do; now is 04:00 or 22:00 of the day.
DayInit ==
    \E z \in Zones, h \in {4, 22} :
      \E d \in IF Len(Transitions(z)) = 0 THEN {1}
                ELSE { Transitions(z)[i].day : i \in 1..2 } :
        \E b \in { DayStart(z, d, Timestamp(z, d, h)) } :
          /\ zone = z
          /\ warm = << 99, 50 >>
          /\ now = Timestamp(z, d, h)
          /\ clock = Timestamp(z, d, h)
          /\ daysDifference = DaysDifference(Timestamp(z, d, h))
          /\ totalExpectedRecords = TotalExpectedRecords(Timestamp(z, d, h))
          /\ capacity = SeedCapacity
          /\ day = d
          /\ hour = 0
          /\ anomalyCounts = b.anomalyCounts
          /\ anomalies = b.anomalies
          /\ records = b.records
          /\ currentRecordIndex = b.currentRecordIndex
          /\ previousEnergy = b.previousEnergy
          /\ last = b.last
          /\ connected = TRUE
          /\ db = [units |-> {SerialNumber}, readings |-> << >>]
          /\ pc = "loop"
          /\ other = NoProcess
          /\ http = NoServer

\* The rest of the run: the loops from day d on, and the readings stored.
DayNext == GenerateRecord \/ FutureBreak \/ InnerLoopEnd \/ EndDay
              \/ InsertMany \/ Inserted \/ Refuse \/ Fail

DaySpec == DayInit /\ [][DayNext]_vars

(* ------------- the reset of seedDatabase, on a module in use ----------- *)

\* Lines 191-195 are written for a module that calls have used.  In the
\* program no call comes before them: seedDatabase is called once, at line
\* 305, and ends the process.  Here the module is as two calls of
\* generateEnergyProduction have left it, one at noon on the stream w and
\* one at hour h on any stream, and seedDatabase has come to the reset.
ResetInit ==
    \E h \in {2, 12}, prev \in {0, 4000}, w \in Warmups :
      \E first \in { Call([hour |-> 12, capacity |-> SeedCapacity,
                            timestamp |-> 720, previousEnergy |-> prev,
                            totalRecords |-> 1000, currentRecord |-> 0,
                            counts |-> ZeroCounts, log |-> << >>],
                           Pad(w)) } :
        LET a == [hour |-> h, capacity |-> SeedCapacity,
                  timestamp |-> 1440 + h * 60, previousEnergy |-> prev,
                  totalRecords |-> 1000, currentRecord |-> 1,
                  counts |-> first.counts, log |-> first.anomalies]
        IN  \E rs \in Streams(a) :
              \E out \in { Call(a, rs) } :
                /\ anomalyCounts = out.counts
                /\ anomalies = out.anomalies
                /\ last = CallRecord(h, SeedCapacity, 1440 + h * 60, prev,
                                     1000, 1, rs, out)
                /\ warm = w
                /\ zone = "UTC"
                /\ db = [units |-> {}, readings |-> << >>]
                /\ clock = 0
                /\ connected = TRUE
                /\ capacity = 0
                /\ now = 0
                /\ daysDifference = 0
                /\ totalExpectedRecords = 0
                /\ day = 0
                /\ hour = 0
                /\ records = << >>
                /\ currentRecordIndex = 0
                /\ previousEnergy = 0
                /\ pc = "reset"
                /\ other = NoProcess
                /\ http = NoServer

\* From the reset to the loops.
ResetNext == Reset \/ SaveUnit \/ Saved \/ Refuse \/ Fail

ResetSpec == ResetInit /\ [][ResetNext]_vars

(* ------------------ the seedDatabase of lines 341-410 ------------------ *)

\* seed.ts holds a second seeding program, with a generateEnergyProduction
\* (lines 311-339) that is the baseline alone and a seedDatabase (lines
\* 341-410) that generates the readings of the last seven days.  It starts
\* as the first does (connectDB, the two deleteMany); it has no tracker,
\* no previousEnergy and no progress, so that anomalyCounts, anomalies,
\* previousEnergy, currentRecordIndex and last stay what they are.

\* The timestamp of the loops: new Date(now), setDate(now.getDate() - d),
\* setHours(h, 0, 0, 0), which is h o'clock of the day d days before the
\* day of now on the clocks of zone z.
WeekTimestamp(z, n, d, h) ==
    LET today == CHOOSE t \in ((n \div 1440) - 1)..((n \div 1440) + 1) :
                     /\ Timestamp(z, t, 0) <= n
                     /\ n < Timestamp(z, t + 1, 0)
    IN  Timestamp(z, today - d, h)

\* The answer of the second deleteMany has arrived: the unit is made and
\* solarUnit.save() called (lines 353-363).
WeekUnit ==
    /\ pc = "reset"
    /\ pc' = "save"
    /\ UNCHANGED << anomalyCounts, anomalies, capacity, now, daysDifference,
                    totalExpectedRecords, day, hour, previousEnergy,
                    currentRecordIndex, records, last, warm, zone,
                    connected, clock, db, other, http >>

\* The answer of save() arrives: now = new Date() (line 370), and the
\* loops start at day = 6, hour = 0.
WeekSaved ==
    /\ pc = "saved"
    /\ capacity' = SeedCapacity
    /\ \E n \in Readings :
          /\ n >= clock
          /\ now' = n
          /\ clock' = n
    /\ day' = 6
    /\ hour' = 0
    /\ pc' = "week"
    /\ UNCHANGED << anomalyCounts, anomalies, daysDifference,
                    totalExpectedRecords, previousEnergy, currentRecordIndex,
                    records, last, warm, zone, connected, db, other, http >>

\* The loop body (lines 374-389): the timestamp, the call and the record
\* pushed; no timestamp is compared with now.  The call draws one value
\* if the hour is one of the day's: the first of warm, and any of Rand in
\* the last calls of the run.
WeekRecord ==
    /\ pc = "week"
    /\ hour < 24
    /\ \E k \in IF day = 0 /\ hour >= 20 - 2 * FreeSteps THEN Rand
                 ELSE { Head(warm) } :
          records' = Append(records,
                       [timestamp |-> WeekTimestamp(zone, now, day, hour),
                        energyProduced |->
                           NormalProduction(hour, capacity, << k >>).value])
    /\ hour' = hour + 2
    /\ UNCHANGED << anomalyCounts, anomalies, capacity, now, daysDifference,
                    totalExpectedRecords, day, previousEnergy,
                    currentRecordIndex, last, pc, warm, zone, connected,
                    clock, db, other, http >>

\* The inner loop ends at hour 24: day-- and the next day, and after day 0
\* EnergyGenerationRecord.insertMany(records) is called.
WeekEndDay ==
    /\ pc = "week"
    /\ ~(hour < 24)
    /\ IF day = 0
       THEN pc' = "insert" /\ UNCHANGED << day, hour >>
       ELSE pc' = "week" /\ day' = day - 1 /\ hour' = 0
    /\ UNCHANGED << anomalyCounts, anomalies, capacity, now, daysDifference,
                    totalExpectedRecords, previousEnergy, currentRecordIndex,
                    records, last, warm, zone, connected, clock, db, other,
                    http >>

WeekNext == Connect \/ ClearReadings \/ ClearUnits \/ Cleared \/ WeekUnit
                \/ SaveUnit \/ WeekSaved \/ WeekRecord \/ WeekEndDay
                \/ InsertMany \/ Inserted \/ Refuse \/ Fail

WeekSpec == Init /\ [][WeekNext]_vars

(* ------------------------ two seeding processes ------------------------ *)

\* seedDatabase is called once, at line 305, and every path of it ends in
\* process.exit(0): a second run is a second process, with the module
\* loaded anew, a connection of its own and a now read when the answer of
\* its own save has arrived.  The two share the database and the clock, nothing else.

\* seedDatabase is at an await: the operation is called, or the database
\* has done or refused it and the answer has not arrived.
AwaitPoints ==
    {"connect", "clearReadings", "readingsCleared", "clearUnits",
     "unitsCleared", "save", "saved", "insert", "inserted", "refused"}

\* The process that steps, as the other one: its module state, its locals
\* and its connection.
Suspended ==
    [pc |-> pc, capacity |-> capacity, now |-> now,
     daysDifference |-> daysDifference,
     totalExpectedRecords |-> totalExpectedRecords, day |-> day,
     hour |-> hour, previousEnergy |-> previousEnergy,
     currentRecordIndex |-> currentRecordIndex, records |-> records,
     counts |-> anomalyCounts, log |-> anomalies, last |-> last,
     warm |-> warm, zone |-> zone, connected |-> connected]

\* Two calls of seedDatabase in one process, the second made as the first
\* waits at connectDB (a second line 305): the calls have their locals
\* each; the module (anomalyCounts and anomalies of lines 13-22), the
\* connection and the time zone are the process's.  The loops have no
\* await: a call's steps follow one another until it is at one, and there
\* the other call, if it is at an await too, may go on.  other holds the
\* locals of the call that waits, and the module as it was at its latest
\* step.  process.exit(0) in either call ends both.
TakeTurn ==
    /\ pc \in AwaitPoints
    /\ other.pc \in AwaitPoints
    /\ other' = Suspended
    /\ pc' = other.pc
    /\ capacity' = other.capacity
    /\ now' = other.now
    /\ daysDifference' = other.daysDifference
    /\ totalExpectedRecords' = other.totalExpectedRecords
    /\ day' = other.day
    /\ hour' = other.hour
    /\ previousEnergy' = other.previousEnergy
    /\ currentRecordIndex' = other.currentRecordIndex
    /\ records' = other.records
    /\ last' = other.last
    /\ warm' = other.warm
    /\ UNCHANGED << anomalyCounts, anomalies, zone, connected, clock, db,
                    http >>

\* The other process takes the next steps: what belongs to a process
\* changes hands, the database and the clock are what they are.
Resume ==
    /\ other' = Suspended
    /\ pc' = other.pc
    /\ capacity' = other.capacity
    /\ now' = other.now
    /\ daysDifference' = other.daysDifference
    /\ totalExpectedRecords' = other.totalExpectedRecords
    /\ day' = other.day
    /\ hour' = other.hour
    /\ previousEnergy' = other.previousEnergy
    /\ currentRecordIndex' = other.currentRecordIndex
    /\ records' = other.records
    /\ anomalyCounts' = other.counts
    /\ anomalies' = other.log
    /\ last' = other.last
    /\ warm' = other.warm
    /\ zone' = other.zone
    /\ connected' = other.connected
    /\ UNCHANGED << clock, db, http >>

\* The processes run side by side.  Between two awaits a process changes
\* nothing but its own memory and reads nothing but the clock, at the
\* arrival of the answer of save(), so that the order of its steps and the
\* other's is of no matter there: the processes take turns where the one
\* that steps is at an await or has exited, and the other one is at an
\* await.
Switch ==
    /\ pc \in AwaitPoints \cup {"done", "failed"}
    /\ other.pc \in AwaitPoints
    /\ Resume

TwoInit ==
    /\ Boot({"UTC"})
    /\ other = FreshProcess(warm, zone)
    /\ http = NoServer

TwoNext == Next \/ Switch

TwoProcessSpec == TwoInit /\ [][TwoNext]_vars

SharedNext == Next \/ TakeTurn

SharedSpec == TwoInit /\ [][SharedNext]_vars

(* ---------------- generateEnergyProduction, called on its own ---------- *)

\* The capacities, previous readings and (totalRecords, currentRecord) pairs
\* a single call is given: a capacity too small for the baseline to reach
\* half a watt-hour early in the morning, one whose bound capacity * 2.4 is
\* no integer, and the seeded unit's; no previous reading, one that rounds
\* up to a tenth, a round one; the defaults and a record past 70 %.
Capacities == {1, 2, SeedCapacity}

PrevEnergies == {0, 5, 14, 4000}

Progresses == { << 1000, 0 >>, << 1000, 701 >> }

FnInit ==
    \E h \in 0..23, cap \in Capacities, prev \in PrevEnergies,
       p \in Progresses :
        /\ hour = h
        /\ capacity = cap
        /\ previousEnergy = prev
        /\ totalExpectedRecords = p[1]
        /\ currentRecordIndex = p[2]
        /\ anomalyCounts = ZeroCounts
        /\ anomalies = << >>
        /\ warm = << >>
        /\ now = 0
        /\ daysDifference = 0
        /\ day = 0
        /\ records = << >>
        /\ last = NoCall
        /\ zone = "UTC"
        /\ connected = FALSE
        /\ clock = 0
        /\ db = EarlierData
        /\ other = NoProcess
        /\ http = NoServer
        /\ pc = "call"

\* One call, with the arguments of the initial state, on the module as loaded.
FnCall ==
    /\ pc = "call"
    /\ LET a == [hour |-> hour, capacity |-> capacity,
                 timestamp |-> Timestamp(zone, day, hour),
                 previousEnergy |-> previousEnergy,
                 totalRecords |-> totalExpectedRecords,
                 currentRecord |-> currentRecordIndex,
                 counts |-> anomalyCounts, log |-> anomalies]
       IN  \E rs \in Streams(a) :
             \E out \in { Call(a, rs) } :
               /\ anomalyCounts' = out.counts
               /\ anomalies' = out.anomalies
               /\ last' = CallRecord(hour, capacity,
                                     Timestamp(zone, day, hour),
                                     previousEnergy, totalExpectedRecords,
                                     currentRecordIndex, rs, out)
    /\ pc' = "returned"
    /\ UNCHANGED << capacity, now, daysDifference, totalExpectedRecords, day,
                    hour, previousEnergy, currentRecordIndex, records,
                    warm, zone, connected, clock, db, other, http >>

FnNext == FnCall

FnSpec == FnInit /\ [][FnNext]_vars

(* ----------------------- the API server at work ----------------------- *)

\* What the seeding program's variables are in the server process: the
\* module state as loaded, no run.
seedVars == << anomalyCounts, anomalies, capacity, now, daysDifference,
               totalExpectedRecords, day, hour, previousEnergy,
               currentRecordIndex, records, pc, last, warm, zone, clock,
               other >>

\* The values of SOLARPANEL_API_SECRET: not set, empty, a secret.
Secret == << "k", "1" >>

Secrets == { Undefined, Str(<< >>), Str(Secret) }

\* The Authorization headers of the requests: none, empty, the scheme with
\* no token, the secret, another token, the secret with more after it,
\* another scheme, the scheme in lower case, the bare secret; to a router
\* without middlewares, none or the secret.
Authorizations(router) ==
    IF router \in {"open", "units-open"}
    THEN { Undefined, Str(Bearer \o Secret) }
    ELSE { Undefined, Str(<< >>), Str(Bearer), Str(Bearer \o Secret),
           Str(Bearer \o << "k", "2" >>), Str(Bearer \o Secret \o << "x" >>),
           Str(<< "B", "a", "s", "i", "c", " " >> \o Secret),
           Str(<< "b", "e", "a", "r", "e", "r", " " >> \o Secret),
           Str(Secret) }

Methods == {"GET", "POST", "PUT", "DELETE", "PATCH"}

\* The paths of the requests below the mount point of a router, as
\* segments: "id1" is the id of the unit stored, "id2" of the reading
\* stored, "id5" of no document, "42" and "7" are no ObjectId; "active" is
\* a status in small letters, "Broken" is none, "act%C4%B1ve" is active
\* with a dotless i and "fault%C3%9F" is fault and a sharp s.
Paths(router) ==
    IF router \in {"first", "guarded", "open"}
    THEN { << >>, << "42" >>, << "id2" >>, << "id5" >>, << "date-range" >>,
           << "solar-unit" >>, << "solar-unit", "id1" >>,
           << "solar-unit", "id1", "latest" >>,
           << "solar-unit", "id5", "total" >>,
           << "solar-unit", "7", "total" >>,
           << "solar-unit", "id1", "analytics" >>,
           << "solar-unit", "id1", "date-range" >>, << "42", "latest" >> }
    ELSE { << >>, << "42" >>, << "id1" >>, << "id5" >>,
           << "user", "user_1" >>, << "status", "active" >>,
           << "status", "Broken" >>, << "status", "act%C4%B1ve" >>,
           << "status", "fault%C3%9F" >>, << "id1", "status" >>,
           << "unassigned", "list" >>, << "id1", "assign" >>,
           << "id1", "unassign" >> }

\* The role claims of the requests.
Roles == { NoRole, Role("admin"), Role("user"), Role("Admin") }

\* The bodies and queries of the requests: nothing; a reading of a unit,
\* with a range of dates and a period; a unit; a status that is none.
Nothing == [body |-> NoRequest.body, query |-> NoRequest.query]

ReadingOf(unit, period) ==
    [body |-> [NoRequest.body EXCEPT !.solarUnitId = Text(unit),
                                     !.energyProduced = Num(5)],
     query |-> [startDate |-> Text("2025-06-01"),
                endDate |-> Text("2025-06-02"), period |-> Text(period)]]

UnitOf(serialNumber, status) ==
    [body |-> [NoRequest.body EXCEPT !.userId = Text("user_1"),
                                     !.serialNumber = Text(serialNumber),
                                     !.capacity = Num(3000),
                                     !.status = status],
     query |-> NoRequest.query]

\* The payloads of the requests of client a: nothing; a reading of the
\* unit stored, of a unit whose id is no ObjectId with a period that is
\* none, and of a unit that is not stored; a unit of a new serial number
\* and one of the serial number stored, with no status; a status that is
\* none.
Payloads ==
    { Nothing, ReadingOf("id1", "weekly"), ReadingOf("42", "yearly"),
      ReadingOf("id5", "daily"),
      UnitOf("SU-2025-002", Text("MAINTENANCE")),
      UnitOf(SerialNumber, Absent),
      [Nothing EXCEPT !.body.status = Text("BROKEN")] }

\* A request as it arrives.
Arriving(router, method, path, authorization, payload) ==
    [NoRequest EXCEPT !.stage = "route", !.router = router,
                      !.method = method, !.path = path,
                      !.authorization = authorization,
                      !.body = payload.body, !.query = payload.query]

\* The requests of client a to a router.  With no payload: of every
\* method and path, with the header that passes the middlewares of the
\* router if the secret is configured as Secret, none to a router without
\* middlewares; of every method and path that a route of the router
\* matches, with no header; a GET and a POST of the root and of "42",
\* with every header.  With the passing header and a payload: a GET that
\* a route matches, with every payload that has a query, which are those
\* of a reading; a POST and a PUT that a route matches, with every
\* payload.
Requests(router) ==
    LET passing == IF router \in {"open", "units-open"} THEN Undefined
                   ELSE Str(Bearer \o Secret)
        Routed(methods) ==
            { t \in methods \X Paths(router) :
                 FirstMatch(router, t[1], t[2]) # 0 }
    IN  { Arriving(router, m, p, passing, Nothing) :
            m \in Methods, p \in Paths(router) }
        \cup { Arriving(router, t[1], t[2], Undefined, Nothing) :
                 t \in Routed(Methods) }
        \cup { Arriving(router, m, p, a, Nothing) :
                 m \in {"GET", "POST"}, p \in { << >>, << "42" >> },
                 a \in Authorizations(router) }
        \cup { Arriving(router, t[1], t[2], passing, l) :
                 t \in Routed({"GET"}),
                 l \in { k \in Payloads : k.query # NoRequest.query } }
        \cup { Arriving(router, t[1], t[2], passing, l) :
                 t \in Routed({"POST", "PUT"}), l \in Payloads }

\* The requests of client b, which change what is stored: the unit stored
\* deleted and a unit created, the reading stored deleted and updated;
\* each with the secret, to the routers without middlewares.
Concurrent ==
    LET secret == Str(Bearer \o Secret)
    IN  { Arriving("units-open", "DELETE", << "id1" >>, secret, Nothing),
          Arriving("units-open", "POST", << >>, secret,
                   UnitOf("SU-2025-002", Absent)),
          Arriving("open", "DELETE", << "id2" >>, secret, Nothing),
          Arriving("open", "PUT", << "id2" >>, secret,
                   ReadingOf("id1", "daily")) }

\* What the database holds when the server starts: the unit of a seeding
\* and a reading of it.
ServedData ==
    [units |-> {[id |-> 1, serialNumber |-> SerialNumber,
                 capacity |-> SeedCapacity, status |-> "ACTIVE"]},
     readings |-> {[id |-> 2, solarUnitId |-> 1, energyProduced |-> 7]},
     issued |-> 2]

\* index.ts has run: connectDB() is called and not awaited, the server
\* listens.
HttpInit ==
    /\ http \in { Listening(secret) : secret \in Secrets }
    /\ connected = FALSE
    /\ db = ServedData
    /\ anomalyCounts = ZeroCounts
    /\ anomalies = << >>
    /\ capacity = 0
    /\ now = 0
    /\ daysDifference = 0
    /\ totalExpectedRecords = 0
    /\ day = 0
    /\ hour = 0
    /\ previousEnergy = 0
    /\ currentRecordIndex = 0
    /\ records = << >>
    /\ last = NoCall
    /\ warm = << >>
    /\ zone = "UTC"
    /\ clock = 0
    /\ other = NoProcess
    /\ pc = "serve"

\* connectDB() settles: mongoose.connect has succeeded; or MONGODB_URL is
\* not set or mongoose.connect has failed, and the error is logged.
ServerConnect ==
    /\ http.connect = "pending"
    /\ \E ok \in BOOLEAN : connected' = ok
    /\ http' = [http EXCEPT !.connect = "settled"]
    /\ UNCHANGED << seedVars, db >>

\* A request arrives, at any time: of client a any one, of client b one
\* that changes what is stored.  The one may arrive before the other has,
\* at any step of the other's way through the server, or after the other
\* is answered.
Receive(c) ==
    /\ http.connect # "off"
    /\ http.req[c].stage = "idle"
    /\ \E q \in IF c = "a" THEN UNION { Requests(r) : r \in Routers }
                ELSE Concurrent :
          http' = [http EXCEPT !.req[c] = q]
    /\ UNCHANGED << seedVars, connected, db >>

\* A request arrives at a handler that has isAdmin before it.
ReceiveForAdmin ==
    /\ http.connect # "off"
    /\ http.req["a"].stage = "idle"
    /\ \E role \in Roles :
          http' = [http EXCEPT !.req["a"] =
                     [NoRequest EXCEPT
                        !.stage = "stack", !.router = "admin", !.role = role,
                        !.stack = << "isAdmin" >>, !.target = "next"]]
    /\ UNCHANGED << seedVars, connected, db >>

\* The router goes through its routes in registration order and enters the
\* first that matches; a request that matches none gets 404.
Dispatch(c) ==
    LET r == http.req[c]
        i == FirstMatch(r.router, r.method, r.path)
    IN  /\ r.stage = "route"
        /\ IF i = 0
           THEN http' = [http EXCEPT !.req[c].stage = "responded",
                                     !.req[c].status = 404]
           ELSE http' = [http EXCEPT
                           !.req[c].stage = "stack", !.req[c].layer = i,
                           !.req[c].stack = Routes(r.router)[i].guards,
                           !.req[c].target = Routes(r.router)[i].handler]
        /\ UNCHANGED << seedVars, connected, db >>

\* isBackendAuthenticated runs: it throws, or calls next().
GuardBackend(c) ==
    LET r == http.req[c]
    IN  /\ r.stage = "stack"
        /\ r.stack # << >>
        /\ Head(r.stack) = "isBackendAuthenticated"
        /\ LET e == IsBackendAuthenticated(r.authorization, http.secret)
           IN  IF e = "next"
               THEN http' = [http EXCEPT !.req[c].stack = Tail(@)]
               ELSE http' = [http EXCEPT !.req[c].stage = "error",
                                         !.req[c].thrown = e]
        /\ UNCHANGED << seedVars, connected, db >>

\* isAdmin runs: it throws, or calls next().
GuardAdmin(c) ==
    LET r == http.req[c]
    IN  /\ r.stage = "stack"
        /\ r.stack # << >>
        /\ Head(r.stack) = "isAdmin"
        /\ LET e == IsAdmin(r.role)
           IN  IF e = "next"
               THEN http' = [http EXCEPT !.req[c].stack = Tail(@)]
               ELSE http' = [http EXCEPT !.req[c].stage = "error",
                                         !.req[c].thrown = e]
        /\ UNCHANGED << seedVars, connected, db >>

\* The handler is called and runs to its first await: there it has called
\* the database, or it has thrown and handed the error to next(error).
Handle(c) ==
    LET r == http.req[c]
    IN  /\ r.stage = "stack"
        /\ r.stack = << >>
        /\ IF Enter(r) = "await"
           THEN http' = [http EXCEPT !.req[c].stage = "await",
                                     !.req[c].handler = r.target,
                                     !.req[c].at = 1]
           ELSE http' = [http EXCEPT !.req[c].stage = "error",
                                     !.req[c].handler = r.target,
                                     !.req[c].thrown = Enter(r)]
        /\ UNCHANGED << seedVars, connected, db >>

\* An awaited database operation takes two steps, and between the two
\* the handler is at the await and the other request may step.

\* The database does the operation a handler has called: the answer is on
\* its way to the handler.
Perform(c) ==
    LET r == http.req[c]
    IN  /\ r.stage = "await"
        /\ connected
        /\ \E o \in Reply(r, db) :
              /\ db' = o.db
              /\ http' = [http EXCEPT
                   !.req[c].stage = "settled",
                   !.req[c].result = [at |-> o.at, status |-> o.status,
                                      thrown |-> o.thrown]]
        /\ UNCHANGED << seedVars, connected >>

\* The operation a handler has called is rejected: without a connection
\* when mongoose gives up buffering it, with one when the database or the
\* network fails.  The rejection is on its way to the handler.
Reject(c) ==
    /\ http.req[c].stage = "await"
    /\ http' = [http EXCEPT
                  !.req[c].stage = "settled",
                  !.req[c].result = [NoResult EXCEPT !.thrown = "Error"]]
    /\ UNCHANGED << seedVars, connected, db >>

\* The answer arrives and the handler goes on from its await: it calls
\* its next operation, responds, or throws and hands the error to
\* next(error).
Resolve(c) ==
    LET r == http.req[c]
    IN  /\ r.stage = "settled"
        /\ http' = [http EXCEPT
             !.req[c].stage = IF r.result.thrown # "none" THEN "error"
                              ELSE IF r.result.status # 0 THEN "responded"
                              ELSE "await",
             !.req[c].at = r.result.at,
             !.req[c].status = r.result.status,
             !.req[c].thrown = r.result.thrown,
             !.req[c].result = NoResult]
        /\ UNCHANGED << seedVars, connected, db >>

\* globalErrorHandlingMiddleware responds to the error.
HandleError(c) ==
    /\ http.req[c].stage = "error"
    /\ http' = [http EXCEPT
                  !.req[c].stage = "responded",
                  !.req[c].status =
                      GlobalErrorHandlingMiddleware(http.req[c].thrown)]
    /\ UNCHANGED << seedVars, connected, db >>

HttpNext ==
    \/ ServerConnect
    \/ ReceiveForAdmin
    \/ \E c \in Clients :
          \/ Receive(c)
          \/ Dispatch(c)
          \/ GuardBackend(c)
          \/ GuardAdmin(c)
          \/ Handle(c)
          \/ Perform(c)
          \/ Reject(c)
          \/ Resolve(c)
          \/ HandleError(c)

HttpSpec == HttpInit /\ [][HttpNext]_vars

(* =============================== the claims ============================ *)

\* The applicability guard of each category, as the specification's table
\* of anomaly generators states it.
Applicable(type, h, prev) ==
    CASE type = "NIGHT_GENERATION" -> h < 6 \/ h > 20
      [] type = "SUDDEN_DROP"      -> prev > 0 /\ 8 <= h /\ h <= 18
      [] type = "OVERPRODUCTION"   -> 10 <= h /\ h <= 14
      [] type = "PEAK_HOUR_ZERO"   -> 10 <= h /\ h <= 14
      [] type = "IRREGULAR_SPIKE"  -> 7 <= h /\ h <= 17

\* The number of events of a category in the log.
Logged(type) ==
    Cardinality({ i \in 1..Len(anomalies) : anomalies[i].type = type })

\* The call c selected a category whose guard failed.
GuardFailed(c) ==
    /\ c.called
    /\ c.shouldAnomaly
    /\ c.anomalyType \in TypeSet
    /\ ~Applicable(c.anomalyType, c.hour, c.previousEnergy)

\* The baseline of the interval of call c, with the draw that follows the
\* trigger's and the selection's.
BaselineOf(c) ==
    LET first == IF c.shouldAnomaly /\ c.anomalyType # "null" THEN 3 ELSE 2
    IN  NormalProduction(c.hour, c.capacity,
                         SubSeq(c.rnd, first, Len(c.rnd))).value

\* The call c injected an anomaly of the category: the latest event of the
\* log is of it and carries the call's timestamp.
Injected(c, type) ==
    /\ c.called
    /\ c.anomalyType = type
    /\ Len(anomalies) > 0
    /\ anomalies[Len(anomalies)].type = type
    /\ anomalies[Len(anomalies)].timestamp = c.timestamp

\* The call c returned the baseline of its interval.
ReturnedBaseline(c) ==
    c.called /\ \A t \in TypeSet : ~Injected(c, t)

\* The hour of the day of a timestamp of the loops, on the clocks of zone
\* z (where two hours of a day have one timestamp, one of the two).
HourOf(z, ts) ==
    LET T == Transitions(z)
        s == CHOOSE s \in {0} \cup { T[i].shift : i \in 1..Len(T) } :
                 /\ (ts - s) % 60 = 0
                 /\ Shift(z, (ts - s) \div 1440,
                          ((ts - s) % 1440) \div 60) = s
    IN  ((ts - s) % 1440) \div 60

\* The latest call was one of the run's free ones (any draw of Rand).
FreeCall == last.called /\ last.currentRecord >= PrefixLen(zone, now)

\* C1: every category count is at most MAX_ANOMALIES_PER_TYPE, and a count
\* that has reached it is never incremented again.
C1_CountsNeverExceedMax ==
    /\ [](\A t \in TypeSet : anomalyCounts[t] <= MAX_ANOMALIES_PER_TYPE)
    /\ [][\A t \in TypeSet :
            anomalyCounts[t] = MAX_ANOMALIES_PER_TYPE
                => anomalyCounts'[t] <= anomalyCounts[t]]_vars

\* A free call triggered while a category was at the maximum, and selected
\* another category.
C1_Witness ==
    /\ FreeCall
    /\ last.shouldAnomaly
    /\ last.anomalyType \in TypeSet
    /\ \E t \in TypeSet :
          /\ anomalyCounts[t] = MAX_ANOMALIES_PER_TYPE
          /\ t # last.anomalyType

\* C2 as stated: a completed run of at least 500 intervals ends with every
\* category count in [5, 20], whatever the random outcomes.
C2_Original ==
    (pc = "done" /\ Len(records) >= 500)
        => \A t \in TypeSet :
              /\ anomalyCounts[t] >= MIN_ANOMALIES_PER_TYPE
              /\ anomalyCounts[t] <= MAX_ANOMALIES_PER_TYPE

\* C2 as amended: a completed run of at least 500 intervals ends with every
\* category count in [0, 20], and with a count above 5 only if every count
\* has reached 5; the lower bound 5 is met for some random outcomes only.
C2_Amended ==
    (pc = "done" /\ Len(records) >= 500)
        => /\ \A t \in TypeSet :
                /\ anomalyCounts[t] >= 0
                /\ anomalyCounts[t] <= MAX_ANOMALIES_PER_TYPE
           /\ (\E t \in TypeSet : anomalyCounts[t] > MIN_ANOMALIES_PER_TYPE)
                => \A t \in TypeSet :
                      anomalyCounts[t] >= MIN_ANOMALIES_PER_TYPE

\* A completed run of 504 intervals whose counts all lie in [5, 20].
C2_Witness ==
    /\ pc = "done"
    /\ Len(records) >= 500
    /\ \A t \in TypeSet :
          /\ anomalyCounts[t] >= MIN_ANOMALIES_PER_TYPE
          /\ anomalyCounts[t] <= MAX_ANOMALIES_PER_TYPE

\* C3: when the selected category's guard fails, the call returns the
\* baseline of the interval, leaves the counts and the log as they were and
\* draws no second category (one draw for the trigger, one for the
\* category, and the baseline's own by day).
C3_GuardFailureFallsBack ==
    [][(last' # last /\ GuardFailed(last'))
         => /\ anomalyCounts' = anomalyCounts
            /\ anomalies' = anomalies
            /\ last'.energy = BaselineOf(last')
            /\ Len(last'.rnd) =
                 IF last'.hour < 6 \/ last'.hour > 20 THEN 2 ELSE 3]_vars

\* A free call selected a category whose guard failed, by day.
C3_Witness ==
    /\ FreeCall
    /\ GuardFailed(last)
    /\ last.energy > 0

\* C4: the count of each category is the number of its events in the log,
\* and a step adds at most one event, of the one category whose count it
\* increments by one.
C4_CountsMatchLog ==
    /\ [](\A t \in TypeSet : anomalyCounts[t] = Logged(t))
    /\ [][\/ (anomalies' = anomalies /\ anomalyCounts' = anomalyCounts)
          \/ /\ Len(anomalies') = Len(anomalies) + 1
             /\ anomalies = SubSeq(anomalies', 1, Len(anomalies))
             /\ \E t \in TypeSet :
                   /\ anomalies'[Len(anomalies')].type = t
                   /\ anomalyCounts' =
                        [anomalyCounts EXCEPT ![t] = @ + 1]]_vars

\* A free call injected an anomaly of a category already logged before.
C4_Witness ==
    /\ FreeCall
    /\ Len(anomalies) >= 2
    /\ anomalies[Len(anomalies)].timestamp = last.timestamp
    /\ anomalyCounts[last.anomalyType] >= 2

\* C5: the baseline of an hour before 6 or after 20 is 0 for every
\* capacity, so that the reading of a night hour is non-zero only if a
\* NIGHT_GENERATION anomaly was injected for it.
C5_NightBaselineIsZero ==
    (last.called /\ (last.hour < 6 \/ last.hour > 20))
        => /\ ReturnedBaseline(last) => last.energy = 0
           /\ last.energy # 0 => Injected(last, "NIGHT_GENERATION")

\* A call at hour 2 with capacity 5000 whose trigger did not fire.
C5_Witness ==
    /\ last.called
    /\ last.hour = 2
    /\ last.capacity = SeedCapacity
    /\ ~last.shouldAnomaly
    /\ last.energy = 0

\* C6 as stated: the baseline of an hour in [6, 20] is an integer v with
\* 0 <= v <= capacity * 2 * 1.2.
C6_Original ==
    (ReturnedBaseline(last) /\ last.hour >= 6 /\ last.hour <= 20)
        => /\ last.energy >= 0
           /\ 10 * last.energy <= 24 * last.capacity

\* C6 as amended: the baseline of an hour in [6, 20] is an integer v with
\* 0 <= v <= capacity * 2 * 1.2 up to rounding, v <= capacity * 2.4 + 0.5.
C6_Amended ==
    (ReturnedBaseline(last) /\ last.hour >= 6 /\ last.hour <= 20)
        => /\ last.energy >= 0
           /\ 10 * last.energy <= 24 * last.capacity + 5

\* A baseline that the rounding took above capacity * 2.4.
C6_Witness ==
    /\ ReturnedBaseline(last)
    /\ last.hour >= 6 /\ last.hour <= 20
    /\ 10 * last.energy > 24 * last.capacity

\* C7: an injected SUDDEN_DROP returns round(previousEnergy * 0.1), within
\* half a unit of 10% of the previous reading: 400 from 4000 at hour 12.
C7_SuddenDropIsTenth ==
    Injected(last, "SUDDEN_DROP")
        => /\ 10 * last.energy <= last.previousEnergy + 5
           /\ 10 * last.energy > last.previousEnergy - 5
           /\ (last.previousEnergy = 4000 /\ last.hour = 12)
                 => last.energy = 400

\* A SUDDEN_DROP injected at hour 12 from a previous reading of 4000.
C7_Witness ==
    /\ Injected(last, "SUDDEN_DROP")
    /\ last.previousEnergy = 4000
    /\ last.hour = 12
    /\ last.energy = 400

\* C8: an injected OVERPRODUCTION returns a value between 1.2 and 4.0 times
\* the capacity, up to rounding.
C8_OverproductionRange ==
    Injected(last, "OVERPRODUCTION")
        => /\ 10 * last.energy >= 12 * last.capacity - 5
           /\ 10 * last.energy <= 40 * last.capacity + 5

\* An OVERPRODUCTION injected with capacity 5000, above 3 times of it.
C8_Witness ==
    /\ Injected(last, "OVERPRODUCTION")
    /\ last.capacity = SeedCapacity
    /\ last.energy > 3 * SeedCapacity

\* C9: every event of the log was injected at an hour its category's guard
\* allows, a SUDDEN_DROP from a positive previous reading.
C9_LoggedEventsSatisfyGuards ==
    \A i \in 1..Len(anomalies) :
        Applicable(anomalies[i].type, HourOf(zone, anomalies[i].timestamp),
                   IF anomalies[i].type = "SUDDEN_DROP"
                   THEN anomalies[i].description.from ELSE 0)

\* The log holds an event of every category, the latest from a free call.
C9_Witness ==
    /\ FreeCall
    /\ Len(anomalies) > 0
    /\ anomalies[Len(anomalies)].timestamp = last.timestamp
    /\ \A t \in TypeSet : Logged(t) > 0

\* C10 as stated: IRREGULAR_SPIKE selected at an hour in [7, 17] with a
\* baseline of 0 for the interval returns 0, logs no event and increments
\* no count.
C10_ZeroBaselineSpike ==
    (/\ last.called
     /\ last.shouldAnomaly
     /\ last.anomalyType = "IRREGULAR_SPIKE"
     /\ last.hour >= 7 /\ last.hour <= 17
     /\ BaselineOf(last) = 0)
        => /\ last.energy = 0
           /\ ~Injected(last, "IRREGULAR_SPIKE")
           /\ anomalies = << >>
           /\ anomalyCounts = ZeroCounts

\* The timestamps of the readings emitted so far.
Timestamps == { records[i].timestamp : i \in 1..Len(records) }

\* C11: the readings are emitted one per (day, interval of the day) pair,
\* in strictly ascending order of timestamp: a step leaves the readings as
\* they are or adds one at their end, the latest reading is the one of the
\* pair of its number, at an even hour of its day, and every reading is
\* later than the one emitted before it, one for every call.
C11_ReadingsStrictlyAscending ==
    /\ [](/\ Len(records) = currentRecordIndex
          /\ Len(records) > 0
                => records[Len(records)].timestamp
                     = Boundary(zone, Len(records) - 1)
          /\ \A i \in 1..(Len(records) - 1) :
                records[i].timestamp < records[i + 1].timestamp)
    /\ [][\/ records' = records
          \/ /\ Len(records') = Len(records) + 1
             /\ SubSeq(records', 1, Len(records)) = records]_vars

\* C12: no reading is later than now, and once the loops are left there is
\* a reading for every 2-hour boundary from the start to now inclusive.
C12_EveryBoundaryUpToNow ==
    /\ \A i \in 1..Len(records) : records[i].timestamp <= now
    /\ pc \in {"insert", "inserted", "done"}
          => Timestamps =
               { t \in { Boundary(zone, i) : i \in 0..((now \div 120) + 1) } :
                   t <= now }

\* C13: at the start of a generation run, after its reset and before its
\* first reading is generated, every count is 0 and the log is empty,
\* whatever the calls made before in the process have left in them.
C13_RunStartsFromZero ==
    (pc \in {"save", "saved"} \/ (pc = "loop" /\ currentRecordIndex = 0))
        => /\ anomalyCounts = ZeroCounts
           /\ anomalies = << >>

\* The latest call before the reset injected night generation at 02:00 (a
\* reading above 0 in the night), into a log that held an event already;
\* the reset is done, now is read and the loops are about to start.
C13_Witness ==
    /\ pc = "loop"
    /\ currentRecordIndex = 0
    /\ last.called
    /\ last.hour = 2
    /\ last.anomalyType = "NIGHT_GENERATION"
    /\ last.energy > 0
    /\ last.previousEnergy = 4000
    /\ warm = << 0, 0, 50, 50 >>
    /\ anomalyCounts = ZeroCounts
    /\ anomalies = << >>

\* C14: of two runs whose steps interleave each has a tracker of its own:
\* a step of the one leaves the counts and the log of the other as they
\* are, and a run that goes on after the other has stepped finds the
\* counts and the log as it left them.
C14_IndependentTrackers ==
    [][IF other' = other
       THEN TRUE
       ELSE /\ anomalyCounts' = other.counts
            /\ anomalies' = other.log
            /\ other'.counts = anomalyCounts
            /\ other'.log = anomalies]_vars

\* C15: within a run the log is append-only: a step after the reset leaves
\* the log as it was or appends one event at its end, the events already
\* there staying what and where they were.
C15_LogAppendOnly ==
    [][pc # "reset"
         => \/ anomalies' = anomalies
            \/ /\ Len(anomalies') = Len(anomalies) + 1
               /\ \A i \in 1..Len(anomalies) : anomalies'[i] = anomalies[i]]_vars

\* A free call appended an event to a log of at least two, the oldest first.
C15_Witness ==
    /\ FreeCall
    /\ Len(anomalies) >= 3
    /\ anomalies[Len(anomalies)].timestamp = last.timestamp
    /\ anomalies[1].timestamp < anomalies[2].timestamp
    /\ anomalies[2].timestamp < last.timestamp

\* C16 as stated: a seeding run completes fully or not at all: a run that
\* failed leaves the units and the readings stored as they were before it,
\* and a run that succeeded has stored its unit and its readings.
C16_AllOrNothing ==
    /\ pc = "failed"
          => /\ db.units = EarlierData.units
             /\ db.readings = EarlierData.readings
    /\ pc = "done"
          => /\ db.units = {SerialNumber}
             /\ db.readings = records

\* C17: whatever the hour, the capacity, the previous reading and the
\* draws, the value generateEnergyProduction returns is an integer that is
\* not negative, from the baseline or from an anomaly generator.
C17_EnergyNonNegative ==
    last.called => last.energy \in Nat

\* An IRREGULAR_SPIKE injected with capacity 2 returned a positive value.
C17_Witness ==
    /\ Injected(last, "IRREGULAR_SPIKE")
    /\ last.capacity = 2
    /\ last.energy > 0

\* C18: a triggered call made while a count is below 5 selects a category
\* whose count is below 5; a category whose count is 5 or more is selected
\* only when every count is 5 or more, and then its count is below 20.
C18_SelectionPrefersNeedy ==
    [][(last' # last /\ last'.shouldAnomaly)
         => LET t == last'.anomalyType
            IN  /\ (\E u \in TypeSet :
                       anomalyCounts[u] < MIN_ANOMALIES_PER_TYPE)
                     => (t \in TypeSet
                         /\ anomalyCounts[t] < MIN_ANOMALIES_PER_TYPE)
                /\ (t \in TypeSet
                    /\ anomalyCounts[t] >= MIN_ANOMALIES_PER_TYPE)
                     => /\ \A u \in TypeSet :
                              anomalyCounts[u] >= MIN_ANOMALIES_PER_TYPE
                        /\ anomalyCounts[t] < MAX_ANOMALIES_PER_TYPE]_vars

\* A free call triggered while some categories had reached 5 and others
\* had not, and selected one of the latter.
C18_Witness ==
    /\ FreeCall
    /\ last.shouldAnomaly
    /\ last.anomalyType \in TypeSet
    /\ anomalyCounts[last.anomalyType] <= MIN_ANOMALIES_PER_TYPE
    /\ \E u, v \in TypeSet \ {last.anomalyType} :
          /\ anomalyCounts[u] < MIN_ANOMALIES_PER_TYPE
          /\ anomalyCounts[v] >= MIN_ANOMALIES_PER_TYPE

\* Every category count is at the maximum.
AllAtMax == \A t \in TypeSet : anomalyCounts[t] = MAX_ANOMALIES_PER_TYPE

\* C19: once every count is 20, a triggered call selects no category and
\* returns the baseline, and no step changes the counts or the log: no
\* anomaly is injected in the rest of the run.
C19_NothingInjectedOnceFull ==
    [][AllAtMax
         => /\ anomalyCounts' = anomalyCounts
            /\ anomalies' = anomalies
            /\ (last' # last /\ last'.shouldAnomaly)
                 => /\ last'.anomalyType = "null"
                    /\ last'.energy = BaselineOf(last')]_vars

\* A free call triggered by day with every count at 20, and returned the
\* baseline.
C19_Witness ==
    /\ FreeCall
    /\ AllAtMax
    /\ last.shouldAnomaly
    /\ last.anomalyType = "null"
    /\ last.energy > 0
    /\ Len(anomalies) = 5 * MAX_ANOMALIES_PER_TYPE

\* C20: a call triggers on a draw below 0.30 exactly when its progress
\* currentRecord / totalRecords is above 0.7 and a count is below 5, and on
\* a draw below 0.08 in every other case: at a progress of 0.7 or less, and
\* with every count at 5 or more.
C20_TriggerThreshold ==
    [][last' # last
         => LET elevated ==
                    /\ 10 * last'.currentRecord > 7 * last'.totalRecords
                    /\ \E t \in TypeSet :
                          anomalyCounts[t] < MIN_ANOMALIES_PER_TYPE
                draw == last'.rnd[1]
            IN  last'.shouldAnomaly =
                    IF elevated THEN 100 * draw < 30 * RandDen
                    ELSE 100 * draw < 8 * RandDen]_vars

\* A free call at a progress of 0.7 exactly, with counts below 5, drew a
\* value between 0.08 and 0.30 and did not trigger.
C20_Witness ==
    /\ FreeCall
    /\ 10 * last.currentRecord = 7 * last.totalRecords
    /\ \E t \in TypeSet : anomalyCounts[t] < MIN_ANOMALIES_PER_TYPE
    /\ 100 * last.rnd[1] >= 8 * RandDen
    /\ 100 * last.rnd[1] < 30 * RandDen
    /\ ~last.shouldAnomaly

\* e is the energy of the latest of the first n readings that is positive,
\* or 0 if none of them is (the search goes from the latest reading back).
IsLastPositive(e, n) ==
    \E k \in 0..n :
        LET i == n - k
        IN  /\ IF i = 0 THEN e = 0
                        ELSE /\ records[i].energyProduced > 0
                             /\ e = records[i].energyProduced
            /\ \A j \in (i + 1)..n : records[j].energyProduced = 0

\* C21: the previousEnergy given to a call is the energy of the latest
\* positive reading emitted before it, or 0 if there is none, and so is the
\* previousEnergy the run holds for its next call: a reading of 0 does not
\* overwrite it.
C21_PreviousEnergyIsLastPositive ==
    /\ IsLastPositive(previousEnergy, Len(records))
    /\ last.called => IsLastPositive(last.previousEnergy, Len(records) - 1)

\* A free call injected PEAK_HOUR_ZERO, and the previous positive reading
\* is still the one the run holds.
C21_Witness ==
    /\ FreeCall
    /\ Injected(last, "PEAK_HOUR_ZERO")
    /\ last.energy = 0
    /\ previousEnergy > 0
    /\ previousEnergy = last.previousEnergy

\* C22: at every call the progress currentRecord / totalRecords is in
\* [0, 1]: currentRecordIndex is the number of readings emitted and stays
\* below totalExpectedRecords = (daysDifference + 1) * 12.
C22_ProgressWithinUnit ==
    /\ currentRecordIndex = Len(records)
    /\ pc \in {"loop", "endDay", "insert", "inserted", "done"}
          => /\ totalExpectedRecords = (daysDifference + 1) * 12
             /\ currentRecordIndex < totalExpectedRecords
    /\ last.called
          => /\ last.currentRecord >= 0
             /\ last.currentRecord < last.totalRecords
             /\ last.totalRecords = totalExpectedRecords

\* A completed run whose now is a midnight: 13 readings of an expected 24.
C22_Witness ==
    /\ pc = "done"
    /\ now = 1440
    /\ currentRecordIndex = 13
    /\ totalExpectedRecords = 24
    /\ last.currentRecord = 12

\* The request r carries "Bearer " followed by a configured, non-empty
\* SOLARPANEL_API_SECRET.
Authorized(r) ==
    /\ http.secret.defined
    /\ http.secret.chars # << >>
    /\ r.authorization.defined
    /\ r.authorization.chars = Bearer \o http.secret.chars

\* C23: isAdmin passes a request on only when its role claim is "admin";
\* every other request gets ForbiddenError (403) and the next handler is
\* not invoked.
C23_OnlyAdminPasses ==
    \A c \in Clients :
       LET r == http.req[c]
       IN  r.router = "admin"
              => /\ r.handler # "none" => r.role = Role("admin")
                 /\ (r.stage = "responded" /\ r.role # Role("admin"))
                       => r.status = 403 /\ r.handler = "none"

\* C24: on a route behind isBackendAuthenticated the handler runs only for
\* a request with "Bearer <token>" where the token is the configured,
\* non-empty secret; every other request gets 401 and the handler is not
\* invoked.
C24_HandlerOnlyWithSecret ==
    \A c \in Clients :
       LET r == http.req[c]
       IN  (r.layer # 0 /\ Routes(r.router)[r.layer].guards # << >>)
              => /\ r.handler # "none" => Authorized(r)
                 /\ (r.stage = "responded" /\ ~Authorized(r))
                       => r.status = 401 /\ r.handler = "none"
                 /\ (r.stage = "stack" /\ r.stack = << >>) => Authorized(r)

\* The secret is configured as the empty string and the request carries
\* "Bearer " with an empty token: 401, no handler.
C24_Witness ==
    LET r == http.req["a"]
    IN  /\ r.router = "guarded"
        /\ r.layer # 0
        /\ http.secret = Str(<< >>)
        /\ r.authorization = Str(Bearer)
        /\ r.stage = "responded"
        /\ r.status = 401
        /\ r.handler = "none"

\* C25: GET /date-range is handled by getEnergyRecordsByDateRange, the
\* handler of the route registered for it, and by no other.
C25_DateRangeOwnHandler ==
    \A c \in Clients :
       LET r == http.req[c]
       IN  (/\ r.router \in {"guarded", "open"}
            /\ r.method = "GET"
            /\ r.path = << "date-range" >>
            /\ r.handler # "none")
              => r.handler = "getEnergyRecordsByDateRange"

====
